---- MODULE Spec2Model ----
(***************************************************************************)
(* A model of condax' environment / metadata / link reconciliation core.   *)
(*                                                                         *)
(* Two implementations live side by side in the repository and both are    *)
(* modelled: the Condax class (condax/condax/condax.py with                *)
(* condax/condax/links.py and condax/condax/metadata/) and the module      *)
(* level functions of condax/core.py.  Definitions of the latter carry the *)
(* prefix core_.                                                           *)
(*                                                                         *)
(* The file system is abstracted to what the code reads and writes: the    *)
(* kind of each environment path, the backend's package manifest of each   *)
(* environment, the condax_metadata.json of each environment, and the      *)
(* files of the bin directory.                                             *)
(***************************************************************************)
EXTENDS Integers, Sequences, FiniteSets, TLC

VARIABLES
    nt,      \* os.name == "nt" for this run
    fs,      \* fs[e]: what is at prefix_dir / e
    pkgs,    \* pkgs[e][p]: installed release of package p in environment e (0: none)
    meta,    \* meta[e]: contents of prefix_dir / e / condax_metadata.json
    bin      \* bin_dir: wrapper file name -> file content

vars == <<nt, fs, pkgs, meta, bin>>

----------------------------------------------------------------------------
(* Bounds and universes *)

\* releases 1..MaxVer of jq exist in the channels, release 1 of every other package
MaxVer == 2

\* paths written into a wrapper have 1..MaxLen characters
MaxLen == 2

\* names of the packages that get an environment of their own
Envs == {"jq", "rg"}
\* names of the packages that are injected into an environment
Injectable == {"yq"}
AllPkgs == Envs \cup Injectable

None == "None"

\* A spec is a package name with an optional version constraint (0: none).
Specs ==
    {[name |-> "jq", ver |-> 0], [name |-> "jq", ver |-> 1], [name |-> "rg", ver |-> 0]}

----------------------------------------------------------------------------
(* Files of a package, as listed in conda-meta/<package>-*.json *)

\* the extension executables carry on this platform
ExeExt == IF nt THEN "exe" ELSE ""

F(dir, stem) == [dir |-> dir, stem |-> stem, ext |-> ExeExt, x |-> TRUE]

\* an executable that is a command script on a Windows-family platform
Script(dir, stem) == [F(dir, stem) EXCEPT !.ext = IF nt THEN "cmd" ELSE ""]

\* The "files" list of release v of package p.  Release 2 of rg, which only
\* the repair of the bin directory meets, ships c as a command script.
Manifest(p, v) ==
    CASE p = "jq" ->
            IF v = 1 THEN {F("bin", "a"), F("bin", "b"),
                           [dir |-> "share", stem |-> "doc", ext |-> "", x |-> FALSE]}
            ELSE IF v = 2 THEN {F("bin", "b"), F("bin", "c")}
            ELSE {F("bin", "b"), F("sbin", "c")}
      [] p = "rg" -> {IF v = 2 THEN Script("bin", "c") ELSE F("bin", "c"),
                      [dir |-> "lib", stem |-> "librg", ext |-> "so", x |-> TRUE]}
      [] p = "yq" -> IF v = 1 THEN {F("bin", "y")} ELSE {F("bin", "y"), F("bin", "z")}
      [] OTHER -> {}

\* PATHEXT of a Windows-family platform
PATHEXT == {"exe", "bat", "cmd", "com"}

ExeName(exe) == [stem |-> exe.stem, ext |-> exe.ext]

\* sorted() of pathlib paths below one prefix: by directory, then by file name
DirRank(d) == CASE d = "bin" -> 1 [] d = "lib" -> 2 [] d = "sbin" -> 3 [] d = "share" -> 4 [] OTHER -> 5
StemRank(s) ==
    CASE s = "a" -> 1 [] s = "b" -> 2 [] s = "c" -> 3 [] s = "doc" -> 4
      [] s = "librg" -> 5 [] s = "y" -> 6 [] OTHER -> 7
PathLess(e1, e2) ==
    \/ DirRank(e1.dir) < DirRank(e2.dir)
    \/ DirRank(e1.dir) = DirRank(e2.dir) /\ StemRank(e1.stem) < StemRank(e2.stem)

RECURSIVE sorted(_)
sorted(S) ==
    IF S = {} THEN <<>>
    ELSE LET m == CHOOSE x \in S : \A y \in S \ {x} : PathLess(x, y)
         IN <<m>> \o sorted(S \ {m})

----------------------------------------------------------------------------
(* The state an operation runs on, and what it has done so far *)

\* `defect`: what makes the file structurally invalid; a file as save writes it has none
NoDefect == [at |-> "", key |-> "", kind |-> "none"]

NoMeta ==
    [present |-> FALSE, name |-> "", apps |-> {}, injected |-> [p \in {} |-> {}],
     defect |-> NoDefect]

Start(f, pk, m, b) ==
    [fs |-> f, pkgs |-> pk, meta |-> m, bin |-> b,
     trace |-> <<>>,       \* backend invocations and link manager steps, in order
     written |-> {},       \* wrapper files written
     linked |-> {},        \* executable names for which create_link returned True
     deleted |-> {},       \* wrapper files deleted
     unlinked |-> {},      \* names remove_links reports as removed
     flagged |-> {},       \* those of them it reports with "(failed to get env)"
     failed |-> {},        \* backend invocations that exited non-zero
     recreated |-> FALSE,  \* Update took the recreation path
     updated |-> {},       \* the environments update_all_packages called update_package for
     err |-> None, code |-> 0]

Raise(S, e, c) == [S EXCEPT !.err = e, !.code = c]

\* statements in sequence: what `next` makes of the value `first` left
Then(first, next(_)) == CHOOSE R \in {next(S) : S \in {first}} : TRUE

Put(b, k, v) == [n \in DOMAIN b \cup {k} |-> IF n = k THEN v ELSE b[n]]
Del(b, k) == [n \in DOMAIN b \ {k} |-> b[n]]

----------------------------------------------------------------------------
(* Environment inspection *)

is_env(f, env) == f[env] = "env"

\* Path.exists()
exists(f, env) == f[env] # "absent"

\* a test that lets a directory with foreign files pass
NotADirectory(f, env) == f[env] = "file"

\* env.exists() and (not env.is_dir() or tuple(env.iterdir()))
NotEmptyOrNotDir(f, env) == f[env] \in {"file", "junkdir", "env"}

\* conda.has_conda_env of core.py: p.exists() and p.is_dir()
has_conda_env(f, package) == f[package] \in {"emptydir", "junkdir", "env"}

InExeDir(file) == file.dir \in {"bin", "sbin", "Scripts", "Library/bin"}

is_executable(file) == IF nt THEN file.ext # "" /\ file.ext \in PATHEXT ELSE file.x

\* the path of a file of an environment; `x` is the executable bit of its stat
ExePath(env, file) ==
    [env |-> env, dir |-> file.dir, stem |-> file.stem, ext |-> file.ext, x |-> file.x]

\* env_info.find_exes: [err, exes]
find_exes(f, pk, prefix, package) ==
    IF f[prefix] # "env" \/ pk[prefix][package] = 0
    THEN [err |-> "NoPackageMetadataError", exes |-> {}]
    ELSE [err |-> None,
          exes |-> {ExePath(prefix, file) : file \in
                      {fl \in Manifest(package, pk[prefix][package]) :
                          InExeDir(fl) /\ is_executable(fl)}}]

EXCLUCDED_FILE_EXTENSIONS ==
    {"bak", "txt", "md", "json", "yml", "yaml", "html", "xml", "pdf", "fq", "fastq", "fa", "fasta"}

StartsWithDotOrUnderscore(stem) == stem \in {".hidden", "_helper"}

\* conda.determine_executables_from_env of core.py: [err, exes]
determine_executables_from_env(f, pk, package, target_name) ==
    IF f[package] # "env" \/ pk[package][target_name] = 0
    THEN [err |-> "DeterminePkgFilesError", exes |-> {}]
    ELSE [err |-> None,
          exes |-> {ExePath(package, file) : file \in
                      {fl \in Manifest(target_name, pk[package][target_name]) :
                          /\ InExeDir(fl)
                          /\ fl.ext \notin EXCLUCDED_FILE_EXTENSIONS
                          /\ ~StartsWithDotOrUnderscore(fl.stem)
                          /\ is_executable(fl)}}]

Names(exes) == {ExeName(e) : e \in exes}

----------------------------------------------------------------------------
(* Executable discovery on the manifest files themselves: the files         *)
(* conda-meta/<name>-<version>-<build>.json of a prefix, each with the name *)
(* of its package and the paths of its files relative to the prefix.        *)
(* find_exes and determine_executables_from_env above are these with the    *)
(* directory reduced to the release of each package.                        *)

\* A package name is a sequence of pieces, so that one name begins with another.
PkgNames == {<<"pip">>, <<"pip", "-tools">>, <<"python">>}

\* a path relative to the prefix: its directory segments, and the stem and the
\* suffix of its final segment; `x` is the executable bit of the file
Fn(dir, stem, ext, x) == [dir |-> dir, stem |-> stem, ext |-> ext, x |-> x]

\* package_info["files"] of the packages, in the layout of the platform
PackageFiles(name) ==
    CASE name = <<"pip">> ->
            IF nt
            THEN {Fn(<<"Scripts">>, "pip", "exe", FALSE),
                  Fn(<<"Scripts">>, "_helper", "bat", FALSE),
                  Fn(<<"Scripts">>, "notes", "txt", FALSE),
                  Fn(<<"Library", "bin">>, "pip3", "bat", FALSE),
                  Fn(<<"Library">>, "tool", "cmd", FALSE),
                  Fn(<<"Lib", "Scripts">>, "tool", "exe", FALSE)}
            ELSE {Fn(<<"bin">>, "pip", "", TRUE),
                  Fn(<<"sbin">>, "pip3", "", TRUE),
                  Fn(<<"bin">>, "_helper", "", TRUE),
                  Fn(<<"bin">>, ".hidden", "", TRUE),
                  Fn(<<"bin">>, "notes", "txt", TRUE),
                  Fn(<<"bin">>, "data", "", FALSE),
                  Fn(<<"bin", "sub">>, "tool", "", TRUE),
                  Fn(<<"lib", "bin">>, "tool", "", TRUE)}
      [] name = <<"pip", "-tools">> ->
            IF nt THEN {Fn(<<"Scripts">>, "pip-compile", "exe", FALSE)}
            ELSE {Fn(<<"bin">>, "pip-compile", "", TRUE)}
      [] name = <<"python">> ->
            IF nt THEN {Fn(<<>>, "python", "exe", FALSE)}
            ELSE {Fn(<<"bin">>, "python", "", TRUE)}
      [] OTHER -> {}

\* one file of conda-meta: its file name and what json.load gives for it
MetaFile(name) ==
    [file |-> name \o <<"-1-0", ".json">>,
     info |-> [name |-> name, files |-> PackageFiles(name)]]

\* conda-meta/history, which every environment has; it is not a manifest, and
\* stands here with no name and no files
History == [file |-> <<"history">>, info |-> [name |-> <<>>, files |-> {}]]

\* str.startswith on names
startswith(str, prefix) ==
    Len(prefix) <= Len(str) /\ SubSeq(str, 1, Len(prefix)) = prefix

\* conda_meta_dir.glob(f"{package}*.json")
glob(conda_meta, package) ==
    {e \in conda_meta :
        /\ startswith(e.file, package)
        /\ Len(e.file) > Len(package)
        /\ e.file[Len(e.file)] = ".json"}

\* fn.startswith("bin/"), fn.startswith("sbin/")
InDir(fn, segment) == fn.dir # <<>> /\ fn.dir[1] = segment

\* fn.lower().startswith(word) for "scripts" and "library"
LowerStartsWith(fn, word) ==
    /\ fn.dir # <<>>
    /\ \/ word = "scripts" /\ fn.dir[1] \in {"scripts", "Scripts"}
       \/ word = "library" /\ fn.dir[1] \in {"library", "Library"}

\* p.parent.name in ("bin", "sbin", "scripts", "Scripts")
ParentIsExeDir(fn) ==
    fn.dir # <<>> /\ fn.dir[Len(fn.dir)] \in {"bin", "sbin", "scripts", "Scripts"}

\* is_exe of env_info.find_exes
is_exe(fn) == ParentIsExeDir(fn)

\* is_good of determine_executables_from_env
is_good(fn) ==
    /\ ParentIsExeDir(fn)
    /\ fn.ext \notin EXCLUCDED_FILE_EXTENSIONS
    /\ ~StartsWithDotOrUnderscore(fn.stem)

\* the set comprehension both functions build from package_info["files"]
potential_executables(files, keep(_)) ==
    {fn \in files :
        \/ InDir(fn, "bin") /\ keep(fn)
        \/ InDir(fn, "sbin") /\ keep(fn)
        \/ LowerStartsWith(fn, "scripts") /\ keep(fn)
        \/ LowerStartsWith(fn, "library") /\ keep(fn)}

\* a variant of the loop that takes the first file the pattern matches
env_info_find_exes_first_match(conda_meta, prefix, package) ==
    IF glob(conda_meta, package) = {}
    THEN [err |-> "NoPackageMetadataError", exes |-> {}]
    ELSE LET e == CHOOSE m \in glob(conda_meta, package) :
                      \/ m.info.name # package
                      \/ \A o \in glob(conda_meta, package) : o.info.name = package
         IN [err |-> None,
             exes |-> {ExePath(prefix, fn) : fn \in
                        {p \in potential_executables(e.info.files, is_exe) : is_executable(p)}}]

\* env_info.find_exes: the loop over the files the pattern matches stops at
\* the first one whose "name" is the package; without one, the else branch raises
env_info_find_exes(conda_meta, prefix, package) ==
    IF \A m \in glob(conda_meta, package) : m.info.name # package
    THEN [err |-> "NoPackageMetadataError", exes |-> {}]
    ELSE LET e == CHOOSE m \in glob(conda_meta, package) : m.info.name = package
         IN [err |-> None,
             exes |-> {ExePath(prefix, fn) : fn \in
                        {p \in potential_executables(e.info.files, is_exe) : is_executable(p)}}]

\* conda.determine_executables_from_env of core.py on the same directory
conda_determine_executables_from_env(conda_meta, package, target_name) ==
    IF \A m \in glob(conda_meta, target_name) : m.info.name # target_name
    THEN [err |-> "DeterminePkgFilesError", exes |-> {}]
    ELSE LET e == CHOOSE m \in glob(conda_meta, target_name) : m.info.name = target_name
         IN [err |-> None,
             exes |-> {ExePath(package, fn) : fn \in
                        {p \in potential_executables(e.info.files, is_good) : is_executable(p)}}]


----------------------------------------------------------------------------
(* Wrapper / link manager: condax/condax/links.py *)

get_wrapper_name(name) == IF nt THEN [stem |-> name.stem, ext |-> "bat"] ELSE name

\* open(script_path, "w"): a new file with the wrapper's lines and the default
\* permission bits, which do not include the executable bit
NewScript(env, exe) == [kind |-> "shim", prefix |-> env, exe |-> exe, x |-> FALSE]

\* shutil.copystat(exe, script_path)
copystat(exe, file) == [file EXCEPT !.x = exe.x]

\* the wrapper create_link leaves for exe of env
Shim(env, exe) == copystat(exe, NewScript(env, exe))
NoExe == [env |-> "", dir |-> "", stem |-> "", ext |-> "", x |-> FALSE]
\* a file in bin_dir that is no wrapper of condax
Other == [kind |-> "other", prefix |-> "", exe |-> NoExe, x |-> FALSE]

\* wrapper.read_prefix: the prefix a wrapper file runs in, None for a file that
\* is missing or is no wrapper
read_prefix(b, link_path) ==
    IF link_path \in DOMAIN b /\ b[link_path].kind = "shim" THEN b[link_path].prefix ELSE None

\* the lines after the prompt: unlink, write, copystat, return True
WriteLink(S, script_path, env, exe) ==
    [S EXCEPT !.bin = Put(S.bin, script_path, copystat(exe, NewScript(env, exe))),
              !.written = @ \cup {script_path},
              !.linked = @ \cup {ExeName(exe)},
              !.trace = Append(@, "link")]

\* a create_link that writes a wrapper only when forced to
create_link_when_forced(S, env, exe, is_forcing, answers) ==
    IF ~is_forcing THEN S
    ELSE WriteLink(S, get_wrapper_name(ExeName(exe)), env, exe)

\* a create_link that takes every answer for a yes
create_link_any_answer(S, env, exe, is_forcing, answers) ==
    WriteLink(S, get_wrapper_name(ExeName(exe)), env, exe)

\* a create_link that never replaces a file
create_link_keeps_existing(S, env, exe, is_forcing, answers) ==
    IF get_wrapper_name(ExeName(exe)) \in DOMAIN S.bin THEN S
    ELSE WriteLink(S, get_wrapper_name(ExeName(exe)), env, exe)

\* a create_link that leaves the new file with its default permission bits
create_link_default_bits(S, env, exe, is_forcing, answers) ==
    LET script_path == get_wrapper_name(ExeName(exe))
    IN  IF script_path \in DOMAIN S.bin /\ ~is_forcing /\ script_path \notin answers
        THEN S
        ELSE [WriteLink(S, script_path, env, exe) EXCEPT
                 !.bin = Put(S.bin, script_path, NewScript(env, exe))]

\* `answers`: the wrapper names for which the user answers the prompt with y / yes
create_link(S, env, exe, is_forcing, answers) ==
    LET script_path == get_wrapper_name(ExeName(exe))
    IN  IF script_path \in DOMAIN S.bin /\ ~is_forcing /\ script_path \notin answers
        THEN S
        ELSE WriteLink(S, script_path, env, exe)

RECURSIVE create_links_loop(_, _, _, _, _)
create_links_loop(S, env, todo, is_forcing, answers) ==
    IF todo = <<>> THEN S
    ELSE create_links_loop(create_link(S, env, Head(todo), is_forcing, answers),
                           env, Tail(todo), is_forcing, answers)

create_links(S, env, executables_to_link, is_forcing, answers) ==
    create_links_loop(S, env, sorted(executables_to_link), is_forcing, answers)

Unlink(S, link_path) ==
    IF link_path \in DOMAIN S.bin
    THEN [S EXCEPT !.bin = Del(S.bin, link_path),
                   !.deleted = @ \cup {link_path},
                   !.trace = Append(@, "unlink")]
    ELSE S

\* `todo`: the names in the order the iterable yields them
RECURSIVE remove_links(_, _, _)
remove_links(S, env, todo) ==
    IF todo = <<>> THEN S
    ELSE
      LET executable_name == Head(todo)
          link_path == get_wrapper_name(executable_name)
          reported(T) == [T EXCEPT !.unlinked = @ \cup {executable_name}]
          failed_to_get_env(T) == [T EXCEPT !.flagged = @ \cup {executable_name}]
      IN  IF nt
          THEN remove_links(reported(Unlink(S, link_path)), env, Tail(todo))
          ELSE
            LET wrapper_env == read_prefix(S.bin, link_path)
            IN  IF wrapper_env = None
                THEN remove_links(failed_to_get_env(reported(Unlink(S, link_path))),
                                  env, Tail(todo))
                ELSE IF ~exists(S.fs, wrapper_env) \/ ~exists(S.fs, env)
                THEN Raise(S, "FileNotFoundError", 1)      \* Path.samefile
                ELSE IF wrapper_env = env                  \* wrapper_env.samefile(env)
                THEN remove_links(S, env, Tail(todo))
                ELSE remove_links(reported(Unlink(S, link_path)), env, Tail(todo))

----------------------------------------------------------------------------
(* Wrapper / link manager of condax/core.py *)

core_create_link(S, package, exe, is_forcing, answers) ==
    LET script_path == get_wrapper_name(ExeName(exe))
    IN  IF script_path \in DOMAIN S.bin /\ ~is_forcing /\ script_path \notin answers
        THEN S
        ELSE WriteLink(S, script_path, package, exe)

RECURSIVE core_create_links_loop(_, _, _, _, _)
core_create_links_loop(S, package, todo, is_forcing, answers) ==
    IF todo = <<>> THEN S
    ELSE core_create_links_loop(core_create_link(S, package, Head(todo), is_forcing, answers),
                                package, Tail(todo), is_forcing, answers)

core_create_links(S, package, executables_to_link, is_forcing, answers) ==
    core_create_links_loop(S, package, sorted(executables_to_link), is_forcing, answers)

\* wrapper.read_env_name: the name of the environment a wrapper file runs in
read_env_name(b, link_path) == read_prefix(b, link_path)

RECURSIVE core_remove_links(_, _, _)
core_remove_links(S, package, todo) ==
    IF todo = <<>> THEN S
    ELSE
      LET executable_name == Head(todo)
          link_path == get_wrapper_name(executable_name)
          reported(T) == [T EXCEPT !.unlinked = @ \cup {executable_name}]
          failed_to_get_env(T) == [T EXCEPT !.flagged = @ \cup {executable_name}]
      IN  IF nt
          THEN core_remove_links(Unlink(S, link_path), package, Tail(todo))
          ELSE
            LET wrapper_env == read_env_name(S.bin, link_path)
            IN  IF wrapper_env = None
                THEN core_remove_links(failed_to_get_env(reported(Unlink(S, link_path))),
                                       package, Tail(todo))
                ELSE IF wrapper_env = package
                THEN core_remove_links(reported(Unlink(S, link_path)), package, Tail(todo))
                ELSE core_remove_links(S, package, Tail(todo))

----------------------------------------------------------------------------
(* Wrapper files as text.  A line is a sequence of characters; the fixed words  *)
(* of a wrapper ("run", "--prefix", ...) count as one character each.  A path  *)
(* can contain letters, spaces and, on a POSIX platform, double quotes.        *)

PathChars == IF nt THEN {"e", " "} ELSE {"e", " ", "\""}
Paths == UNION {[1..n -> PathChars] : n \in 1..MaxLen}

\* str(exe) of an executable `name` in directory `dir`
PathStr(exe) == exe.dir \o <<"/", exe.name>>

\* Path.name: what follows the last separator
PathName(str) ==
    LET seps == {k \in 1..Len(str) : str[k] = "/"}
        last == IF seps = {} THEN 0 ELSE CHOOSE k \in seps : \A j \in seps : j <= k
    IN  SubSeq(str, last + 1, Len(str))

micromamba_exe == <<"micromamba">>

\* utils.quote
utils_quote(path) == <<"\"">> \o path \o <<"\"">>

\* os.environ.get("CONDAX_HIDE_EXITCODE", False): the string the variable is
\* set to, or the default False
Unset == [set |-> FALSE, str |-> <<>>]
SetTo(str) == [set |-> TRUE, str |-> str]

\* str.lower(), character by character
LowerChar(c) ==
    CASE c = "F" -> "f" [] c = "A" -> "a" [] c = "L" -> "l" [] c = "S" -> "s"
      [] c = "E" -> "e" [] c = "T" -> "t" [] c = "R" -> "r" [] c = "U" -> "u"
      [] OTHER -> c
lower(str) == [k \in DOMAIN str |-> LowerChar(str[k])]

DigitValue(c) ==
    CASE c = "0" -> 0 [] c = "1" -> 1 [] c = "2" -> 2 [] c = "3" -> 3 [] c = "4" -> 4
      [] c = "5" -> 5 [] c = "6" -> 6 [] c = "7" -> 7 [] c = "8" -> 8 [] c = "9" -> 9
      [] OTHER -> -1

\* the digits of a decimal literal after its sign
Unsigned(str) == IF str # <<>> /\ Head(str) \in {"+", "-"} THEN Tail(str) ELSE str

\* int(value) does not raise ValueError
IsInt(str) ==
    Unsigned(str) # <<>> /\ \A k \in DOMAIN Unsigned(str) : DigitValue(Unsigned(str)[k]) >= 0

RECURSIVE Magnitude(_)
Magnitude(digits) ==
    IF digits = <<>> THEN 0
    ELSE 10 * Magnitude(SubSeq(digits, 1, Len(digits) - 1)) + DigitValue(digits[Len(digits)])

\* int(value)
int(str) == IF Head(str) = "-" THEN 0 - Magnitude(Unsigned(str)) ELSE Magnitude(Unsigned(str))

\* utils.to_bool
to_bool(value) ==
    IF ~value.set THEN FALSE                 \* isinstance(value, bool): the default False
    ELSE IF value.str = <<>> THEN FALSE      \* not value
    ELSE IF lower(value.str) = <<"f", "a", "l", "s", "e">> THEN FALSE
    ELSE IF IsInt(value.str) /\ int(value.str) > 0 THEN TRUE
    ELSE FALSE

\* a to_bool that takes every string that is set for true
to_bool_when_set(value) == value.set

\* script_lines of create_link; hide: to_bool(CONDAX_HIDE_EXITCODE)
script_lines(env, exe, hide) ==
    IF nt
    THEN << <<"@rem Entrypoint created by condax">>,
            <<"@call", " ">> \o utils_quote(micromamba_exe) \o <<" ", "run", " ", "--prefix", " ">>
                \o utils_quote(env) \o <<" ">> \o utils_quote(exe) \o <<" ", "%*">> >>
    ELSE << <<"#!/usr/bin/env bash">>,
            <<>>,
            <<"# Entrypoint created by condax">>,
            utils_quote(micromamba_exe) \o <<" ", "run", " ", "--prefix", " ">>
                \o utils_quote(env) \o <<" ">> \o utils_quote(exe)
                \o <<" ", "\"", "$@", "\"">> >>
         \o (IF hide THEN << <<"exit", " ", "0">> >> ELSE <<>>)

\* the words of a line: split at the spaces outside double quotes, the quotes
\* taken off; no words for a line with an unclosed quote
RECURSIVE Split(_, _, _, _, _)
Split(line, words, word, open, quoted) ==
    IF line = <<>>
    THEN IF quoted THEN <<>> ELSE IF open THEN Append(words, word) ELSE words
    ELSE IF Head(line) = "\""
    THEN Split(Tail(line), words, word, TRUE, ~quoted)
    ELSE IF Head(line) = " " /\ ~quoted
    THEN Split(Tail(line), IF open THEN Append(words, word) ELSE words, <<>>, FALSE, FALSE)
    ELSE Split(Tail(line), words, Append(word, Head(line)), TRUE, quoted)

Words(line) == Split(line, <<>>, <<>>, FALSE, FALSE)

NoParse == [ok |-> FALSE, prefix |-> <<>>, exec_path |-> <<>>, args |-> <<>>]

\* the run invocation of a line: <program> run --prefix <prefix> <executable>
\* <arguments>, after @call on a Windows-family platform
ParseLine(line) ==
    LET all == Words(line)
        w == IF all # <<>> /\ all[1] = <<"@call">> THEN Tail(all) ELSE all
    IN  IF Len(w) >= 5 /\ w[2] = <<"run">> /\ w[3] = <<"--prefix">>
        THEN [ok |-> TRUE, prefix |-> w[4], exec_path |-> w[5],
              args |-> SubSeq(w, 6, Len(w))]
        ELSE NoParse

\* wrapper.Parser.parse: the first line of the script that is a run invocation
Parser_parse(lines) ==
    LET runs == {k \in 1..Len(lines) : ParseLine(lines[k]).ok}
    IN  IF runs = {} THEN NoParse
        ELSE ParseLine(lines[CHOOSE k \in runs : \A j \in runs : k <= j])

----------------------------------------------------------------------------
(* Environment backend.  `bk` holds what the backend does in this operation:  *)
(* whether each kind of invocation exits with 0 (remove_ok, create_ok,        *)
(* update_ok, install_ok) and the releases the solver picks (ver for the main *)
(* package, iver for an injected one).                                        *)

BackendCalls == {"remove_env", "create_env", "update_env", "install", "uninstall"}
Calls(tr) == SelectSeq(tr, LAMBDA c : c \in BackendCalls)

Called(S, c, exit) ==
    [S EXCEPT !.trace = Append(@, c), !.failed = IF exit # 0 THEN @ \cup {c} ELSE @]

NoPkgs == [p \in AllPkgs |-> 0]

\* what `conda env remove --prefix` / `conda remove --all` leave behind
RemoveEnvEffect(S, env, ok) ==
    IF ok /\ S.fs[env] = "env"
    THEN [S EXCEPT !.fs[env] = "absent", !.pkgs[env] = NoPkgs, !.meta[env] = NoMeta]
    ELSE S
RemoveEnvExit(S, env, ok) == IF ok /\ S.fs[env] = "env" THEN 0 ELSE 1

\* what `conda create --prefix` leaves behind
CreateEnvEffect(S, env, ok, ver) ==
    IF ok /\ S.fs[env] \in {"absent", "emptydir", "env"}
    THEN [S EXCEPT !.fs[env] = "env", !.pkgs[env] = [NoPkgs EXCEPT ![env] = ver],
                   !.meta[env] = NoMeta]
    ELSE S
CreateEnvExit(S, env, ok) == IF ok /\ S.fs[env] \in {"absent", "emptydir", "env"} THEN 0 ELSE 1

\* what `conda update --prefix` leaves behind: the main package at the release
\* the solver picks, every other installed package at the release it picks
UpdateEnvEffect(S, env, ok, ver, iver) ==
    IF ok /\ S.fs[env] = "env"
    THEN [S EXCEPT !.pkgs[env] = [p \in AllPkgs |->
                IF p = env THEN ver ELSE IF S.pkgs[env][p] = 0 THEN 0 ELSE iver]]
    ELSE S
UpdateEnvExit(S, env, ok) == IF ok /\ S.fs[env] = "env" THEN 0 ELSE 1

\* what `conda install --prefix` leaves behind: a package that is installed
\* already satisfies the request
InstallEffect(S, env, names, ok, iver) ==
    IF ok /\ S.fs[env] = "env"
    THEN [S EXCEPT !.pkgs[env] = [p \in AllPkgs |->
                IF p \in names /\ S.pkgs[env][p] = 0 THEN iver ELSE S.pkgs[env][p]]]
    ELSE S
InstallExit(S, env, ok) == IF ok /\ S.fs[env] = "env" THEN 0 ELSE 1

\* what `conda uninstall --prefix` leaves behind
UninstallEffect(S, env, names, ok) ==
    IF ok /\ S.fs[env] = "env"
    THEN [S EXCEPT !.pkgs[env] = [p \in AllPkgs |-> IF p \in names THEN 0 ELSE S.pkgs[env][p]]]
    ELSE S
UninstallExit(S, env, ok) == IF ok /\ S.fs[env] = "env" THEN 0 ELSE 1

(* condax/conda/conda.py: Conda._run returns the CompletedProcess whatever the *)
(* exit code                                                                   *)
Conda_run(S, c, exit) == Called(S, c, exit)

Conda_remove_env(S, env, bk) ==
    Conda_run(RemoveEnvEffect(S, env, bk.remove_ok), "remove_env",
              RemoveEnvExit(S, env, bk.remove_ok))

Conda_create_env(S, prefix, bk) ==
    Conda_run(CreateEnvEffect(S, prefix, bk.create_ok, bk.ver), "create_env",
              CreateEnvExit(S, prefix, bk.create_ok))

\* Conda.update_env: signals CondaCommandError on a non-zero exit
Conda_update_env(S, env, bk) ==
    LET exit == UpdateEnvExit(S, env, bk.update_ok)
        T == Called(UpdateEnvEffect(S, env, bk.update_ok, bk.ver, bk.iver), "update_env", exit)
    IN  IF exit # 0 THEN Raise(T, "CondaCommandError", 202) ELSE T

(* condax/conda.py: _subprocess_run raises SubprocessError on a non-zero exit *)
subprocess_run(S, c, exit) ==
    IF exit # 0 THEN Raise(Called(S, c, exit), "SubprocessError", exit) ELSE Called(S, c, exit)

remove_conda_env(S, package, bk) ==
    subprocess_run(RemoveEnvEffect(S, package, bk.remove_ok), "remove_env",
                   RemoveEnvExit(S, package, bk.remove_ok))

create_conda_environment(S, package, bk) ==
    subprocess_run(CreateEnvEffect(S, package, bk.create_ok, bk.ver), "create_env",
                   CreateEnvExit(S, package, bk.create_ok))

update_conda_env(S, package, bk) ==
    subprocess_run(UpdateEnvEffect(S, package, bk.update_ok, bk.ver, bk.iver), "update_env",
                   UpdateEnvExit(S, package, bk.update_ok))

inject_to_conda_env(S, names, env_name, bk) ==
    subprocess_run(InstallEffect(S, env_name, names, bk.install_ok, bk.iver), "install",
                   InstallExit(S, env_name, bk.install_ok))

uninject_from_conda_env(S, names, env_name, bk) ==
    subprocess_run(UninstallEffect(S, env_name, names, bk.install_ok), "uninstall",
                   UninstallExit(S, env_name, bk.install_ok))

----------------------------------------------------------------------------
(* Iteration orders.  The code iterates over Python sets whose order is not   *)
(* fixed; `rev` picks one of two orders, ascending or descending by name.     *)

NameLess(n1, n2) == StemRank(n1.stem) < StemRank(n2.stem)

RECURSIVE ascending(_)
ascending(N) ==
    IF N = {} THEN <<>>
    ELSE LET m == CHOOSE x \in N : \A y \in N \ {x} : ~NameLess(y, x)
         IN <<m>> \o ascending(N \ {m})

Reverse(q) == [i \in 1..Len(q) |-> q[Len(q) + 1 - i]]

Iterate(N, rev) == IF rev THEN Reverse(ascending(N)) ELSE ascending(N)

RECURSIVE SetToSeq(_)
SetToSeq(N) == IF N = {} THEN <<>> ELSE LET m == CHOOSE x \in N : TRUE IN <<m>> \o SetToSeq(N \ {m})

----------------------------------------------------------------------------
(* Metadata store: condax/condax/metadata/metadata.py *)

IsDir(f, prefix) == f[prefix] \in {"emptydir", "junkdir", "env"}

\* CondaxMetaData.save
save(S, prefix, m) ==
    IF IsDir(S.fs, prefix) THEN [S EXCEPT !.meta[prefix] = m]
    ELSE Raise(S, "FileNotFoundError", 1)

MainOnly(package, apps) ==
    [present |-> TRUE, name |-> package, apps |-> apps, injected |-> [p \in {} |-> {}],
     defect |-> NoDefect]

\* create(prefix, package, executables); package = None and given = FALSE stand
\* for the arguments left out
metadata_create(S, prefix, package, given, executables) ==
    LET pkg == IF package = None THEN prefix ELSE package
        found == IF given /\ executables # {}
                 THEN [err |-> None, exes |-> executables]
                 ELSE find_exes(S.fs, S.pkgs, prefix, pkg)
    IN  IF found.err # None THEN Raise(S, found.err, 201)
        ELSE save(S, prefix, MainOnly(pkg, Names(found.exes)))

InjectedRecord(apps, include_apps) == [apps |-> apps, include_apps |-> include_apps]

(* The JSON document of a metadata file.  A value carries its JSON type; an  *)
(* object is a function of its keys, an array a sequence.                    *)
JStr(x) == [t |-> "str", v |-> x]
JBool(x) == [t |-> "bool", v |-> x]
JNum(x) == [t |-> "num", v |-> x]
JList(q) == [t |-> "list", v |-> q]
JDict(f) == [t |-> "dict", v |-> f]

\* _PackageBase.serialize; the order of the list of apps, which deserialize
\* turns into a set again, is taken to be the ascending one here
PackageBase_serialize(name, apps, include_apps) ==
    JDict([k \in {"name", "apps", "include_apps"} |->
              CASE k = "name" -> JStr(name)
                [] k = "apps" -> JList([i \in 1..Cardinality(apps) |-> JStr(ascending(apps)[i])])
                [] OTHER -> JBool(include_apps)])

\* MainPackage.serialize
MainPackage_serialize(name, prefix, apps) ==
    JDict([k \in {"name", "apps", "include_apps", "prefix"} |->
              IF k = "prefix" THEN JStr(prefix)
              ELSE PackageBase_serialize(name, apps, TRUE).v[k]])

\* CondaxMetaData.serialize
CondaxMetaData_serialize(m, prefix) ==
    LET names == SetToSeq(DOMAIN m.injected)
    IN  JDict([k \in {"main_package", "injected_packages"} |->
                  IF k = "main_package" THEN MainPackage_serialize(m.name, prefix, m.apps)
                  ELSE JList([i \in 1..Len(names) |->
                                 PackageBase_serialize(names[i], m.injected[names[i]].apps,
                                                       m.injected[names[i]].include_apps)])])

(* The text json.dump(self.serialize(), f, indent=4) writes.  An object is    *)
(* written as its <<key, value>> members in the order of the dict, which is   *)
(* the order of insertion; `rev` picks the order list(self._apps) yields the  *)
(* elements of the set in.                                                    *)
PackageBase_dump(name, apps, include_apps, rev) ==
    << <<"name", name>>, <<"apps", Iterate(apps, rev)>>, <<"include_apps", include_apps>> >>

MainPackage_dump(name, prefix, apps, rev) ==
    PackageBase_dump(name, apps, TRUE, rev) \o << <<"prefix", prefix>> >>

CondaxMetaData_dump(m, prefix, rev) ==
    LET names == SetToSeq(DOMAIN m.injected)
    IN  << <<"main_package", MainPackage_dump(m.name, prefix, m.apps, rev)>>,
           <<"injected_packages",
             [i \in 1..Len(names) |->
                 PackageBase_dump(names[i], m.injected[names[i]].apps,
                                  m.injected[names[i]].include_apps, rev)]>> >>

(* What can make a metadata file structurally invalid: a key is missing, a   *)
(* value has the wrong type, an apps list has an element of the wrong type;  *)
(* at the top level, in the main package record or in an injected one.       *)
Defects(m) ==
    {[at |-> "top", key |-> "", kind |-> "type"]}
        \cup [at : {"top"}, key : {"main_package", "injected_packages"},
              kind : {"missing", "type"}]
        \cup [at : {"main"}, key : {"name", "apps", "include_apps", "prefix"},
              kind : {"missing", "type"}]
        \cup [at : DOMAIN m.injected, key : {"name", "apps", "include_apps"},
              kind : {"missing", "type"}]
        \cup [at : {"main"} \cup DOMAIN m.injected, key : {"apps"}, kind : {"element"}]
        \cup [at : DOMAIN m.injected, key : {""}, kind : {"type"}]

Without(d, key) == JDict([k \in DOMAIN d.v \ {key} |-> d.v[k]])
With(d, key, x) == JDict([k \in DOMAIN d.v \cup {key} |-> IF k = key THEN x ELSE d.v[k]])

\* the value d with the defect of `kind` at `key` ("": d itself)
Damaged(d, key, kind) ==
    CASE kind = "missing" -> Without(d, key)
      [] kind = "type" -> IF key = "" THEN JNum(0) ELSE With(d, key, JNum(0))
      [] kind = "element" -> With(d, key, JList(Append(d.v[key].v, JNum(0))))
      [] OTHER -> d

\* the document of a file that held `doc` before `defect` got into it
Damage(doc, defect) ==
    IF defect.kind = "none" THEN doc
    ELSE IF defect.at = "top" THEN Damaged(doc, defect.key, defect.kind)
    ELSE IF defect.at = "main"
    THEN With(doc, "main_package", Damaged(doc.v["main_package"], defect.key, defect.kind))
    ELSE LET list == doc.v["injected_packages"].v
         IN  With(doc, "injected_packages",
                  JList([i \in 1..Len(list) |->
                            IF list[i].v["name"].v = defect.at
                            THEN Damaged(list[i], defect.key, defect.kind)
                            ELSE list[i]]))

\* what json.load reads from prefix / condax_metadata.json
Document(m, prefix) == Damage(CondaxMetaData_serialize(m, prefix), m.defect)

\* `assert isinstance(serialized[key], type)`: the exception it raises, if any
Check(d, key, type) ==
    IF key \notin DOMAIN d.v THEN "KeyError"
    ELSE IF d.v[key].t # type THEN "AssertionError"
    ELSE None

\* _PackageBase.deserialize: the exception it raises, if any
PackageBase_deserialize(d) ==
    IF d.t # "dict" THEN "AssertionError"
    ELSE IF Check(d, "name", "str") # None THEN Check(d, "name", "str")
    ELSE IF Check(d, "apps", "list") # None THEN Check(d, "apps", "list")
    ELSE IF \E i \in 1..Len(d.v["apps"].v) : d.v["apps"].v[i].t # "str" THEN "AssertionError"
    ELSE Check(d, "include_apps", "bool")

\* MainPackage.deserialize: the exception it raises, if any
MainPackage_deserialize(d) ==
    IF Check(d, "prefix", "str") # None THEN Check(d, "prefix", "str")
    ELSE PackageBase_deserialize(d)

\* the set of the strings of a JSON array
Strings(list) == {list.v[i].v : i \in 1..Len(list.v)}

\* CondaxMetaData.deserialize: [err, m]
CondaxMetaData_deserialize(doc) ==
    LET raise(e) == [err |-> e, m |-> NoMeta]
    IN  IF doc.t # "dict" THEN raise("AssertionError")
        ELSE IF Check(doc, "main_package", "dict") # None
        THEN raise(Check(doc, "main_package", "dict"))
        ELSE IF Check(doc, "injected_packages", "list") # None
        THEN raise(Check(doc, "injected_packages", "list"))
        ELSE IF MainPackage_deserialize(doc.v["main_package"]) # None
        THEN raise(MainPackage_deserialize(doc.v["main_package"]))
        ELSE
          LET main == doc.v["main_package"].v
              list == doc.v["injected_packages"].v
              bad == {i \in 1..Len(list) : PackageBase_deserialize(list[i]) # None}
          IN  IF bad # {}
              THEN raise(PackageBase_deserialize(
                             list[CHOOSE i \in bad : \A j \in bad : i <= j]))
              ELSE
                LET names == {list[i].v["name"].v : i \in 1..Len(list)}
                    \* {pkg.name: pkg for pkg in injected_packages}: the last one stays
                    last(p) == CHOOSE i \in 1..Len(list) :
                                 /\ list[i].v["name"].v = p
                                 /\ \A j \in 1..Len(list) : list[j].v["name"].v = p => j <= i
                IN  [err |-> None,
                     m |-> [present |-> TRUE, name |-> main["name"].v,
                            apps |-> Strings(main["apps"]),
                            injected |-> [p \in names |->
                                InjectedRecord(Strings(list[last(p)].v["apps"]),
                                               list[last(p)].v["include_apps"].v)],
                            defect |-> NoDefect]]

\* a _load that takes only a failed assertion for bad metadata
metadata__load_assertions_only(S, prefix) ==
    IF ~S.meta[prefix].present THEN [err |-> None, found |-> FALSE, m |-> NoMeta]
    ELSE Then(Document(S.meta[prefix], prefix), LAMBDA doc :
           Then(CondaxMetaData_deserialize(doc), LAMBDA d :
             IF d.err = "AssertionError"
             THEN [err |-> "BadMetadataError", found |-> FALSE, m |-> NoMeta]
             ELSE [err |-> d.err, found |-> TRUE, m |-> d.m]))

\* _load(prefix): [err, found, m]; found is FALSE for the None it returns when
\* there is no file
metadata__load(S, prefix) ==
    IF ~S.meta[prefix].present THEN [err |-> None, found |-> FALSE, m |-> NoMeta]
    ELSE Then(Document(S.meta[prefix], prefix), LAMBDA doc :
           Then(CondaxMetaData_deserialize(doc), LAMBDA d :
             IF d.err \in {"AssertionError", "KeyError"}
             THEN [err |-> "BadMetadataError", found |-> FALSE, m |-> NoMeta]
             ELSE [err |-> d.err, found |-> TRUE, m |-> d.m]))

\* load(prefix): the record is meta[prefix] of the result
metadata_load(S, prefix) ==
    LET loaded == metadata__load(S, prefix)
    IN  IF loaded.err # None THEN Raise(S, loaded.err, 301)
        ELSE IF loaded.found THEN [S EXCEPT !.meta[prefix] = loaded.m]
        ELSE LET T == metadata_create(S, prefix, None, FALSE, {})
             IN  IF T.err # None THEN T
                 ELSE IF ~T.meta[prefix].present THEN Raise(T, "NoMetadataError", 302)
                 ELSE T

\* CondaxMetaData.inject
InjectInto(m, name, rec) ==
    [m EXCEPT !.injected = [p \in DOMAIN m.injected \cup {name} |->
                               IF p = name THEN rec ELSE m.injected[p]]]

\* CondaxMetaData.uninject
UninjectFrom(m, name) ==
    [m EXCEPT !.injected = [p \in DOMAIN m.injected \ {name} |-> m.injected[p]]]

RECURSIVE metadata_inject_loop(_, _, _, _, _)
metadata_inject_loop(S, prefix, m, todo, include_apps) ==
    IF todo = <<>> THEN save(S, prefix, m)
    ELSE LET found == find_exes(S.fs, S.pkgs, prefix, Head(todo))
         IN  IF found.err # None THEN Raise(S, found.err, 201)
             ELSE metadata_inject_loop(S, prefix,
                      InjectInto(m, Head(todo), InjectedRecord(Names(found.exes), include_apps)),
                      Tail(todo), include_apps)

\* inject(prefix, packages_to_inject, include_apps)
metadata_inject(S, prefix, packages_to_inject, include_apps) ==
    LET T == metadata_load(S, prefix)
    IN  IF T.err # None THEN T
        ELSE metadata_inject_loop(T, prefix, T.meta[prefix], packages_to_inject, include_apps)

\* CondaxMetaData.apps
CondaxMetaData_apps(m) == m.apps \cup UNION {m.injected[p].apps : p \in DOMAIN m.injected}

----------------------------------------------------------------------------
(* Reconciliation core: class Condax of condax/condax/condax.py *)

\* utils.package_name
package_name(spec) == spec.name

\* a guard that removes nothing before it creates
Condax_install_guard_keeps(S, env, is_forcing, bk) ==
    IF is_env(S.fs, env)
    THEN IF is_forcing THEN S
         ELSE Raise(S, "PackageInstalledError", 101)
    ELSE IF NotEmptyOrNotDir(S.fs, env)
         THEN Raise(S, "NotAnEnvError", 102)
         ELSE S

\* a guard that takes every install for a forced one
Condax_install_guard_forced(S, env, is_forcing, bk) ==
    IF is_env(S.fs, env)
    THEN Conda_remove_env(S, env, bk)
    ELSE IF NotEmptyOrNotDir(S.fs, env)
         THEN Raise(S, "NotAnEnvError", 102)
         ELSE S

\* the if statement of install_package: what is at the target path
Condax_install_guard(S, env, is_forcing, bk) ==
    IF is_env(S.fs, env)
    THEN IF is_forcing THEN Conda_remove_env(S, env, bk)
         ELSE Raise(S, "PackageInstalledError", 101)
    ELSE IF NotEmptyOrNotDir(S.fs, env)
         THEN Raise(S, "NotAnEnvError", 102)
         ELSE S

Condax_install_package(S, spec, is_forcing, bk, answers) ==
    LET package == package_name(spec)
        env == package
        S1 == Condax_install_guard(S, env, is_forcing, bk)
    IN  IF S1.err # None THEN S1
        ELSE
          LET S2 == Conda_create_env(S1, env, bk)
              found == find_exes(S2.fs, S2.pkgs, env, package)
          IN  IF found.err # None THEN Raise(S2, found.err, 201)
              ELSE metadata_create(create_links(S2, env, found.exes, is_forcing, answers),
                                   env, package, TRUE, found.exes)

Condax_remove_package(S, package, bk, rev) ==
    LET env == package
    IN  IF ~is_env(S.fs, env) THEN S
        ELSE
          LET S1 == metadata_load(S, env)
          IN  IF S1.err # None THEN S1
              ELSE
                LET apps_to_unlink == CondaxMetaData_apps(S1.meta[env])
                    S2 == remove_links(S1, env, Iterate(apps_to_unlink, rev))
                IN  IF S2.err # None THEN S2 ELSE Conda_remove_env(S2, env, bk)

\* Condax._find_all_exes: [err, exes]
Condax_find_all_exes(S, env, m) ==
    LET each == [p \in {m.name} \cup DOMAIN m.injected |-> find_exes(S.fs, S.pkgs, env, p)]
    IN  IF \E p \in DOMAIN each : each[p].err # None
        THEN [err |-> "NoPackageMetadataError", exes |-> {}]
        ELSE [err |-> None, exes |-> UNION {each[p].exes : p \in DOMAIN each}]

\* Condax.inject_package(name, env): requires a tracked environment, installs
\* the package with the backend and records it; include_apps is off by default
Condax_inject_package(S, name, env, is_forcing, bk) ==
    IF ~is_env(S.fs, env) THEN Raise(S, "PackageNotInstalled", 21)
    ELSE
      LET exit == InstallExit(S, env, bk.install_ok)
          S1 == Called(InstallEffect(S, env, {name}, bk.install_ok, bk.iver), "install", exit)
      IN  IF exit # 0 THEN Raise(S1, "CondaCommandError", 202)
          ELSE metadata_inject(S1, env, <<name>>, FALSE)

RECURSIVE Condax_replay(_, _, _, _, _)
Condax_replay(S, todo, env, is_forcing, bk) ==
    IF todo = <<>> \/ S.err # None THEN S
    ELSE Condax_replay(Condax_inject_package(S, Head(todo), env, is_forcing, bk),
                       Tail(todo), env, is_forcing, bk)

RECURSIVE Condax_reinject_metadata(_, _, _, _)
Condax_reinject_metadata(S, env, m, todo) ==
    IF todo = <<>> \/ S.err # None THEN S
    ELSE Condax_reinject_metadata(
             metadata_inject(S, env, <<Head(todo)>>, m.injected[Head(todo)].include_apps),
             env, m, Tail(todo))

\* a metadata update that forgets the injected packages
Condax_update_metadata_main_only(S, env, m) ==
    IF S.err # None THEN S ELSE metadata_create(S, env, None, FALSE, {})

\* the lines after the try statement: "Update metadata file"
Condax_update_metadata(S, env, m) ==
    IF S.err # None THEN S
    ELSE Condax_reinject_metadata(metadata_create(S, env, None, FALSE, {}), env, m,
                                  SetToSeq(DOMAIN m.injected))

\* the except clause: "Recreating the environment..."
Condax_recreate(S, spec, m, is_forcing, bk, answers, rev) ==
    LET pkg_name == package_name(spec)
        env == pkg_name
        R0 == [S EXCEPT !.err = None, !.code = 0, !.recreated = TRUE]
        R1 == Condax_remove_package(R0, pkg_name, bk, rev)
    IN  IF R1.err # None THEN R1
        ELSE LET R2 == Condax_install_package(R1, spec, is_forcing, bk, answers)
             IN  Condax_replay(R2, SetToSeq(DOMAIN m.injected), env, is_forcing, bk)

Condax_update_package(S, spec, is_forcing, bk, answers, rev) ==
    LET pkg_name == package_name(spec)
        env == pkg_name
    IN  Then(metadata_load(S, env), LAMBDA S1 :
          IF S1.err # None THEN S1
          ELSE IF ~is_env(S1.fs, env) THEN Raise(S1, "PackageNotInstalled", 21)
          ELSE
            LET m == S1.meta[env]
            IN  Then(Condax_find_all_exes(S1, env, m), LAMBDA exes_before :
                  IF exes_before.err # None THEN Raise(S1, exes_before.err, 201)
                  ELSE
                    Then(Conda_update_env(S1, env, bk), LAMBDA S2 :
                      IF S2.err = "CondaCommandError"
                      THEN Then(Condax_recreate(S2, spec, m, is_forcing, bk, answers, rev),
                                LAMBDA S3 : Condax_update_metadata(S3, env, m))
                      ELSE
                        Then(Condax_find_all_exes(S2, env, m), LAMBDA exes_after :
                          IF exes_after.err # None THEN Raise(S2, exes_after.err, 201)
                          ELSE
                            LET to_create == exes_after.exes \ exes_before.exes
                                to_remove == exes_before.exes \ exes_after.exes
                            IN  Then(create_links(S2, env, to_create, is_forcing, answers),
                                  LAMBDA S3 :
                                    Then(remove_links(S3, env, Iterate(Names(to_remove), rev)),
                                      LAMBDA S4 : Condax_update_metadata(S4, env, m)))))))

\* env_info.find_envs
find_envs(f) == {prefix \in Envs : is_env(f, prefix)}

\* the environment names in ascending order
EnvOrder == <<"jq", "rg">>

\* the loop of update_all_packages: an exception of update_package ends it
RECURSIVE Condax_update_all_loop(_, _, _, _, _, _)
Condax_update_all_loop(S, todo, is_forcing, bk, answers, rev) ==
    IF todo = <<>> THEN S
    ELSE LET env == Head(todo)
         IN  Then(Condax_update_package([S EXCEPT !.updated = @ \cup {env}],
                                        [name |-> env, ver |-> 0], is_forcing, bk[env],
                                        answers, rev),
                  LAMBDA T : IF T.err # None THEN T
                             ELSE Condax_update_all_loop(T, Tail(todo), is_forcing, bk,
                                                         answers, rev))

\* `order`: the order the set find_envs returns is iterated in; bk[env]: the
\* backend of the Update of env
Condax_update_all_packages(S, order, is_forcing, bk, answers, rev) ==
    LET envs == SelectSeq(EnvOrder, LAMBDA e : e \in find_envs(S.fs))
    IN  Condax_update_all_loop(S, IF order THEN Reverse(envs) ELSE envs,
                               is_forcing, bk, answers, rev)

----------------------------------------------------------------------------
(* Module-level operations of condax/core.py.  The environment of a package  *)
(* is named after the package; the metadata file is the one of the store.    *)

\* utils.split_match_specs(spec)[0]
split_match_specs(spec) == spec.name

core_create_metadata(S, package) ==
    LET found == determine_executables_from_env(S.fs, S.pkgs, package, package)
    IN  IF found.err # None THEN Raise(S, found.err, 40)
        ELSE save(S, package, MainOnly(package, Names(found.exes)))

\* _load_metadata(env): the record is meta[env] of the result
core_load_metadata(S, env) ==
    IF S.meta[env].present THEN S
    ELSE LET T == core_create_metadata(S, env)
         IN  IF T.err # None THEN T
             ELSE IF ~T.meta[env].present THEN Raise(T, "NoMetadataError", 22)
             ELSE T

RECURSIVE core_inject_loop(_, _, _, _, _)
core_inject_loop(S, env, m, todo, include_apps) ==
    IF todo = <<>> THEN save(S, env, m)
    ELSE LET found == determine_executables_from_env(S.fs, S.pkgs, env, Head(todo))
         IN  IF found.err # None THEN Raise(S, found.err, 40)
             ELSE core_inject_loop(S, env,
                      InjectInto(UninjectFrom(m, Head(todo)), Head(todo),
                                 InjectedRecord(Names(found.exes), include_apps)),
                      Tail(todo), include_apps)

core_inject_to_metadata(S, env, packages_to_inject, include_apps) ==
    LET T == core_load_metadata(S, env)
    IN  IF T.err # None THEN T
        ELSE core_inject_loop(T, env, T.meta[env], packages_to_inject, include_apps)

RECURSIVE UninjectAll(_, _)
UninjectAll(m, todo) ==
    IF todo = <<>> THEN m ELSE UninjectAll(UninjectFrom(m, Head(todo)), Tail(todo))

core_uninject_from_metadata(S, env, packages_to_uninject) ==
    LET T == core_load_metadata(S, env)
    IN  IF T.err # None THEN T
        ELSE save(T, env, UninjectAll(T.meta[env], packages_to_uninject))

\* a list of the apps of an injected package whatever its include_apps
injected_apps_whatever(m, injected_name) ==
    IF injected_name \in DOMAIN m.injected
    THEN ascending(m.injected[injected_name].apps)
    ELSE <<>>

\* the list _get_injected_apps(env_name, injected_name) returns
injected_apps(m, injected_name) ==
    IF injected_name \in DOMAIN m.injected /\ m.injected[injected_name].include_apps
    THEN ascending(m.injected[injected_name].apps)
    ELSE <<>>

RECURSIVE Flatten(_)
Flatten(qq) == IF qq = <<>> THEN <<>> ELSE Head(qq) \o Flatten(Tail(qq))

\* the list _get_apps(env_name) returns
get_apps(m) ==
    ascending(m.apps)
        \o Flatten([i \in 1..Len(SetToSeq(DOMAIN m.injected)) |->
                        injected_apps(m, SetToSeq(DOMAIN m.injected)[i])])

core_install_package(S, spec, is_forcing, bk, answers) ==
    LET package == split_match_specs(spec)
        S1 == IF has_conda_env(S.fs, package)
              THEN IF is_forcing THEN remove_conda_env(S, package, bk)
                   ELSE Raise(S, "PackageInstalledError", 20)
              ELSE S
    IN  IF S1.err # None THEN S1
        ELSE
          LET S2 == create_conda_environment(S1, package, bk)
          IN  IF S2.err # None THEN S2
              ELSE
                LET found == determine_executables_from_env(S2.fs, S2.pkgs, package, package)
                IN  IF found.err # None THEN Raise(S2, found.err, 40)
                    ELSE core_create_metadata(
                             core_create_links(S2, package, found.exes, is_forcing, answers),
                             package)

\* the loop "Add links only if --include-apps is set"
RECURSIVE core_link_injected(_, _, _, _, _)
core_link_injected(S, env_name, todo, is_forcing, answers) ==
    IF todo = <<>> \/ S.err # None THEN S
    ELSE LET found == determine_executables_from_env(S.fs, S.pkgs, env_name, Head(todo))
         IN  IF found.err # None THEN Raise(S, found.err, 40)
             ELSE core_link_injected(
                      core_create_links(S, env_name, found.exes, is_forcing, answers),
                      env_name, Tail(todo), is_forcing, answers)

\* an inject that links the apps whatever include_apps says
core_inject_package_to_linking(S, env_name, injected_packages, is_forcing, include_apps, bk, answers) ==
    IF ~has_conda_env(S.fs, env_name) THEN Raise(S, "PackageNotInstalled", 21)
    ELSE
      LET S1 == inject_to_conda_env(S, {injected_packages[i] : i \in DOMAIN injected_packages},
                                    env_name, bk)
      IN  IF S1.err # None THEN S1
          ELSE
            LET S2 == core_inject_to_metadata(S1, env_name, injected_packages, include_apps)
            IN  IF S2.err # None THEN S2
                ELSE core_link_injected(S2, env_name, injected_packages, is_forcing, answers)

core_inject_package_to(S, env_name, injected_packages, is_forcing, include_apps, bk, answers) ==
    IF ~has_conda_env(S.fs, env_name) THEN Raise(S, "PackageNotInstalled", 21)
    ELSE
      LET S1 == inject_to_conda_env(S, {injected_packages[i] : i \in DOMAIN injected_packages},
                                    env_name, bk)
      IN  IF S1.err # None THEN S1
          ELSE
            LET S2 == core_inject_to_metadata(S1, env_name, injected_packages, include_apps)
            IN  IF S2.err # None \/ ~include_apps THEN S2
                ELSE core_link_injected(S2, env_name, injected_packages, is_forcing, answers)

\* an uninject that goes to the backend with whatever names it found
core_uninject_package_from_always(S, env_name, packages_to_uninject, bk) ==
    IF ~has_conda_env(S.fs, env_name) THEN Raise(S, "PackageNotInstalled", 21)
    ELSE
      LET S1 == core_load_metadata(S, env_name)
      IN  IF S1.err # None THEN S1
          ELSE
            LET found == packages_to_uninject \cap DOMAIN S1.meta[env_name].injected
                todo == SetToSeq(found)
                S2 == uninject_from_conda_env(S1, found, env_name, bk)
            IN  IF S2.err # None THEN S2
                ELSE
                  LET injected_app_names ==
                          Flatten([i \in 1..Len(todo) |->
                                      injected_apps(S2.meta[env_name], todo[i])])
                      S3 == core_remove_links(S2, env_name, injected_app_names)
                  IN  core_uninject_from_metadata(S3, env_name, todo)

core_uninject_package_from(S, env_name, packages_to_uninject, bk) ==
    IF ~has_conda_env(S.fs, env_name) THEN Raise(S, "PackageNotInstalled", 21)
    ELSE
      LET S1 == core_load_metadata(S, env_name)
      IN  IF S1.err # None THEN S1
          ELSE
            LET found == packages_to_uninject \cap DOMAIN S1.meta[env_name].injected
                todo == SetToSeq(found)
            IN  IF found = {} THEN S1
                ELSE
                  LET S2 == uninject_from_conda_env(S1, found, env_name, bk)
                  IN  IF S2.err # None THEN S2
                      ELSE
                        LET injected_app_names ==
                                Flatten([i \in 1..Len(todo) |->
                                            injected_apps(S2.meta[env_name], todo[i])])
                            S3 == core_remove_links(S2, env_name, injected_app_names)
                        IN  core_uninject_from_metadata(S3, env_name, todo)

\* exit_if_not_installed(package, error)
exit_if_not_installed(S, package, error) ==
    IF ~exists(S.fs, package)
    THEN Raise(S, "PackageNotInstalled", IF error THEN 21 ELSE 0)
    ELSE S

core_remove_package(S, package, bk) ==
    LET S0 == exit_if_not_installed(S, package, FALSE)
    IN  IF S0.err # None THEN S0
        ELSE
          LET S1 == core_load_metadata(S0, package)
          IN  IF S1.err # None THEN S1
              ELSE remove_conda_env(
                       core_remove_links(S1, package, get_apps(S1.meta[package])),
                       package, bk)

\* the except clause of update_package: "Recreating the environment..."
core_recreate(S, env, is_forcing, bk, answers) ==
    LET R0 == [S EXCEPT !.err = None, !.code = 0, !.recreated = TRUE]
        R1 == core_remove_package(R0, env, bk)
    IN  IF R1.err # None THEN R1
        ELSE core_install_package(R1, [name |-> env, ver |-> 0], is_forcing, bk, answers)

\* the loop "Update links of injected apps"
RECURSIVE core_update_injected_links(_, _, _, _, _, _, _)
core_update_injected_links(S, env, todo, before, after, is_forcing, answers) ==
    IF todo = <<>> THEN S
    ELSE LET pkg == Head(todo)
             to_delete == before[pkg] \ after[pkg]
             to_create == after[pkg] \ before[pkg]
             S1 == core_remove_links(S, env, ascending(Names(to_delete)))
         IN  core_update_injected_links(
                 core_create_links(S1, env, to_create, is_forcing, answers),
                 env, Tail(todo), before, after, is_forcing, answers)

\* the lines after the try statement: "Update metadata file".  The metadata
\* just created lists no injected package, and _inject_to_metadata(env, pkg)
\* takes the characters of the name `pkg` for package names
core_update_metadata(S, env) ==
    IF S.err # None THEN S
    ELSE LET T == core_create_metadata(S, env)
         IN  IF T.err # None THEN T
             ELSE IF DOMAIN T.meta[env].injected = {} THEN T
             ELSE Raise(T, "DeterminePkgFilesError", 40)

\* the try block of update_package
core_try_update(S, spec, env, is_forcing, bk, answers) ==
    LET main_before == determine_executables_from_env(S.fs, S.pkgs, env, env)
        S1 == core_load_metadata(S, env)
    IN  IF main_before.err # None THEN Raise(S, main_before.err, 40)
        ELSE IF S1.err # None THEN S1
        ELSE
          LET injected == DOMAIN S1.meta[env].injected
              before == [p \in injected |-> determine_executables_from_env(S1.fs, S1.pkgs, env, p)]
          IN  IF \E p \in injected : before[p].err # None
              THEN Raise(S1, "DeterminePkgFilesError", 40)
              ELSE
                LET S2 == update_conda_env(S1, env, bk)
                    main_after == determine_executables_from_env(S2.fs, S2.pkgs, env, env)
                    after == [p \in injected |->
                                 determine_executables_from_env(S2.fs, S2.pkgs, env, p)]
                IN  IF S2.err # None THEN S2
                    ELSE IF main_after.err # None \/ \E p \in injected : after[p].err # None
                    THEN Raise(S2, "DeterminePkgFilesError", 40)
                    ELSE
                      LET to_create == main_after.exes \ main_before.exes
                          to_delete == main_before.exes \ main_after.exes
                          S3 == core_create_links(S2, env, to_create, is_forcing, answers)
                          S4 == core_remove_links(S3, env, ascending(Names(to_delete)))
                      IN  core_update_injected_links(S4, env, SetToSeq(injected),
                              [p \in injected |-> before[p].exes],
                              [p \in injected |-> after[p].exes], is_forcing, answers)

core_update_package(S, spec, is_forcing, bk, answers) ==
    LET env == split_match_specs(spec)
        S0 == exit_if_not_installed(S, env, TRUE)
    IN  IF S0.err # None THEN S0
        ELSE
          LET S1 == core_try_update(S0, spec, env, is_forcing, bk, answers)
          IN  IF S1.err = "CalledProcessError"
              THEN core_update_metadata(core_recreate(S1, env, is_forcing, bk, answers), env)
              ELSE core_update_metadata(S1, env)


\* _get_all_envs: the sorted names of the directories utils.is_env_dir accepts
get_all_envs(f) == SelectSeq(EnvOrder, LAMBDA e : is_env(f, e))

RECURSIVE core_update_all_loop(_, _, _, _, _)
core_update_all_loop(S, todo, is_forcing, bk, answers) ==
    IF todo = <<>> THEN S
    ELSE LET package == Head(todo)
         IN  Then(core_update_package([S EXCEPT !.updated = @ \cup {package}],
                                      [name |-> package, ver |-> 0], is_forcing,
                                      bk[package], answers),
                  LAMBDA T : IF T.err # None THEN T
                             ELSE core_update_all_loop(T, Tail(todo), is_forcing, bk, answers))

core_update_all_packages(S, is_forcing, bk, answers) ==
    core_update_all_loop(S, get_all_envs(S.fs), is_forcing, bk, answers)

----------------------------------------------------------------------------
(* Repair of the bin directory: _prune_links, _recreate_links and fix_links  *)
(* of condax/core.py.  Besides wrappers ("shim") and foreign files ("other") *)
(* the directory may hold a symbolic link whose target is missing            *)
(* ("dangling"), one whose target exists ("symlink"), and a wrapper whose    *)
(* environment cannot be read from its lines ("unparsable").                 *)

FileOfKind(kind) == [kind |-> kind, prefix |-> "", exe |-> NoExe, x |-> FALSE]

\* link.is_symlink() and (not link.exists())
is_dangling(b, link) == b[link].kind = "dangling"

\* wrapper.is_wrapper: a regular file with the lines of a wrapper
is_wrapper(b, link) == link \in DOMAIN b /\ b[link].kind \in {"shim", "unparsable"}

\* utils.to_body_ext: the suffix .bat becomes .exe
to_body_ext(wrapper_name) ==
    IF wrapper_name.ext = "bat" THEN [stem |-> wrapper_name.stem, ext |-> "exe"]
    ELSE wrapper_name

Elements(q) == {q[k] : k \in DOMAIN q}

\* to_apps = {env: _get_apps(env) for env in _get_all_envs()}; _get_apps loads
\* the metadata, which writes the file when it is missing: [S, to_apps]
RECURSIVE core_to_apps(_, _, _)
core_to_apps(S, todo, to_apps) ==
    IF todo = <<>> THEN [S |-> S, to_apps |-> to_apps]
    ELSE Then(core_load_metadata(S, Head(todo)), LAMBDA T :
           IF T.err # None THEN [S |-> T, to_apps |-> to_apps]
           ELSE core_to_apps(T, Tail(todo),
                             Put(to_apps, Head(todo), get_apps(T.meta[Head(todo)]))))

\* to_apps.get(target_env, [])
valid_apps(to_apps, target_env) ==
    IF target_env \in DOMAIN to_apps THEN Elements(to_apps[target_env]) ELSE {}

\* a body of the loop that deletes every wrapper it can read the environment of
core_prune_link_all(S, link, to_apps) ==
    IF read_env_name(S.bin, link) = None THEN S ELSE Unlink(S, link)

\* the body of the loop over bin_dir.glob("*")
core_prune_link(S, link, to_apps) ==
    Then(IF is_dangling(S.bin, link) THEN Unlink(S, link) ELSE S, LAMBDA S1 :
      IF ~is_wrapper(S1.bin, link) THEN S1
      ELSE IF read_env_name(S1.bin, link) = None THEN S1
      ELSE IF to_body_ext(link) \notin valid_apps(to_apps, read_env_name(S1.bin, link))
      THEN Unlink(S1, link)
      ELSE S1)

RECURSIVE core_prune_loop(_, _, _)
core_prune_loop(S, links, to_apps) ==
    IF links = <<>> THEN S
    ELSE Then(core_prune_link(S, Head(links), to_apps), LAMBDA S1 :
           core_prune_loop(S1, Tail(links), to_apps))

core_prune_links(S) ==
    Then(core_to_apps(S, get_all_envs(S.fs), <<>>), LAMBDA r :
      IF r.S.err # None THEN r.S
      ELSE core_prune_loop(r.S, SetToSeq(DOMAIN r.S.bin), r.to_apps))

\* _get_executables_to_link(env): [err, exes]
core_get_executables_to_link(S, env) ==
    LET m == S.meta[env]
        pkgs_to_link == {m.name} \cup {p \in DOMAIN m.injected : m.injected[p].include_apps}
        each == [p \in pkgs_to_link |->
                     determine_executables_from_env(S.fs, S.pkgs, m.name, p)]
    IN  IF \E p \in pkgs_to_link : each[p].err # None
        THEN [err |-> "DeterminePkgFilesError", exes |-> {}]
        ELSE [err |-> None, exes |-> UNION {each[p].exes : p \in pkgs_to_link}]

\* _recreate_links(env) without is_forcing: files in the way stay
core_recreate_links_unforced(S, env) ==
    Then(core_load_metadata(S, env), LAMBDA T :
      IF T.err # None THEN T
      ELSE Then(core_get_executables_to_link(T, env), LAMBDA found :
             IF found.err # None THEN Raise(T, found.err, 40)
             ELSE core_create_links(T, env, found.exes, FALSE, {})))

\* _recreate_links(env)
core_recreate_links(S, env) ==
    Then(core_load_metadata(S, env), LAMBDA T :
      IF T.err # None THEN T
      ELSE Then(core_get_executables_to_link(T, env), LAMBDA found :
             IF found.err # None THEN Raise(T, found.err, 40)
             ELSE core_create_links(T, env, found.exes, TRUE, {})))

RECURSIVE core_recreate_all_loop(_, _)
core_recreate_all_loop(S, todo) ==
    IF todo = <<>> \/ S.err # None THEN S
    ELSE Then(core_recreate_links(S, Head(todo)), LAMBDA T :
           core_recreate_all_loop(T, Tail(todo)))

\* _recreate_all_links()
core_recreate_all_links(S) == core_recreate_all_loop(S, get_all_envs(S.fs))

\* fix_links(); the list of environments it appends to ~/.conda/environments.txt
\* last is no part of the state
core_fix_links(S) ==
    Then(core_prune_links(S), LAMBDA T :
      IF T.err # None THEN T ELSE core_recreate_all_links(T))

----------------------------------------------------------------------------
(* The state machine *)

Commit(R) ==
    \E S \in {R} :
        /\ fs' = S.fs
        /\ pkgs' = S.pkgs
        /\ meta' = S.meta
        /\ bin' = S.bin
        /\ nt' = nt

Now == Start(fs, pkgs, meta, bin)

\* the backend of one operation: the commands in `fails` exit with 1, and the
\* solver picks release `ver` of the main package
Bk(fails, ver) ==
    [remove_ok |-> "remove_env" \notin fails, create_ok |-> "create_env" \notin fails,
     update_ok |-> "update_env" \notin fails,
     install_ok |-> fails \cap {"install", "uninstall"} = {},
     ver |-> ver, iver |-> 1]

\* the releases of a package in the channels
Releases(p) == IF p = "jq" THEN 1..MaxVer ELSE {1}

\* the releases that satisfy a spec
Satisfying(spec) == IF spec.ver = 0 THEN Releases(spec.name) ELSE {spec.ver}

\* the values of an input that is read only when `relevant`
Flag(relevant) == IF relevant THEN BOOLEAN ELSE {FALSE}
Release(relevant, S) == IF relevant THEN S ELSE {1}

\* the answers a user can give to the overwrite prompts: no to all, yes to all
Answers(is_forcing) == IF is_forcing \/ DOMAIN bin = {} THEN {{}} ELSE {{}, DOMAIN bin}

\* the backend commands that fail in one operation: none, one of those the
\* operation issues first, or that one and one of those that follow it
Failing(first, then) ==
    {{}} \cup {{c} : c \in first} \cup {{c, d} : c \in first, d \in then}

\* a wrapper whose environment is gone makes samefile signal FileNotFoundError,
\* and only then does the order of iteration over a set of names show
Dangling ==
    \E n \in DOMAIN bin : bin[n].kind = "shim" /\ ~exists(fs, bin[n].prefix)

Several(package) ==
    /\ Dangling
    /\ meta[package].present
    /\ Cardinality(CondaxMetaData_apps(meta[package])) > 1

\* the inputs of one operation
In(spec, is_forcing, fails, ver, answers, rev, include_apps) ==
    [spec |-> spec, is_forcing |-> is_forcing, fails |-> fails, ver |-> ver,
     answers |-> answers, rev |-> rev, include_apps |-> include_apps]

Unpinned(package) == [name |-> package, ver |-> 0]

EmptyBin == [n \in {} |-> Other]

Init ==
    /\ nt \in BOOLEAN
    /\ fs \in {f \in [Envs -> {"absent", "emptydir", "junkdir", "file"}] :
                   f["jq"] = "absent"}
    /\ pkgs = [e \in Envs |-> NoPkgs]
    /\ meta = [e \in Envs |-> NoMeta]
    /\ bin \in {EmptyBin,
                [n \in {get_wrapper_name([stem |-> "c", ext |-> ExeExt])} |-> Other]}

(* condax install, class Condax *)
CondaxInstallInputs ==
    UNION {LET tracked == is_env(fs, c.spec.name)
               creates == (tracked /\ c.f) \/ fs[c.spec.name] \in {"absent", "emptydir"}
           IN  UNION {{In(c.spec, c.f, fails, ver, answers, FALSE, FALSE) :
                          ver \in Release(creates /\ "create_env" \notin fails,
                                          Satisfying(c.spec)),
                          answers \in Answers(c.f \/ ~creates \/ "create_env" \in fails)} :
                      fails \in Failing((IF tracked /\ c.f THEN {"remove_env"} ELSE {})
                                   \cup (IF creates THEN {"create_env"} ELSE {}), {})} :
           c \in [spec : Specs, f : BOOLEAN]}

CondaxInstallRun(i) ==
    Condax_install_package(Now, i.spec, i.is_forcing, Bk(i.fails, i.ver), i.answers)

CondaxInstall == \E i \in CondaxInstallInputs : Commit(CondaxInstallRun(i))

(* condax remove, class Condax *)
CondaxRemoveInputs ==
    UNION {LET tracked == is_env(fs, package)
           IN  {In(Unpinned(package), FALSE, fails, 1, {}, rev, FALSE) :
                   fails \in Failing(IF tracked THEN {"remove_env"} ELSE {}, {}),
                   rev \in Flag(tracked /\ Several(package))} :
           package \in Envs}

CondaxRemoveRun(i) == Condax_remove_package(Now, i.spec.name, Bk(i.fails, i.ver), i.rev)

CondaxRemove == \E i \in CondaxRemoveInputs : Commit(CondaxRemoveRun(i))

(* condax update, class Condax *)
CondaxUpdateInputs ==
    UNION {LET tracked == is_env(fs, c.spec.name)
               injected == tracked /\ \E p \in Injectable : pkgs[c.spec.name][p] # 0
           IN  UNION {{In(c.spec, c.f, fails, ver, answers, rev, FALSE) :
                          ver \in Release(tracked /\ fails \in {{}, {"update_env"}},
                                          Satisfying(c.spec)),
                          answers \in Answers(c.f \/ ~tracked),
                          rev \in Flag(tracked /\ Several(c.spec.name))} :
                      fails \in Failing(IF tracked THEN {"update_env"} ELSE {},
                                        {"remove_env", "create_env"}
                                            \cup (IF injected THEN {"install"} ELSE {}))} :
           c \in [spec : Specs, f : Flag(DOMAIN bin # {})]}

CondaxUpdateRun(i) ==
    Condax_update_package(Now, i.spec, i.is_forcing, Bk(i.fails, i.ver), i.answers, i.rev)

CondaxUpdate == \E i \in CondaxUpdateInputs : Commit(CondaxUpdateRun(i))

(* condax install, core.py *)
CoreInstallInputs ==
    UNION {LET had == has_conda_env(fs, c.spec.name)
               creates == ~had \/ (c.f /\ is_env(fs, c.spec.name))
           IN  UNION {{In(c.spec, c.f, fails, ver, answers, FALSE, FALSE) :
                          ver \in Release(creates /\ fails = {}, Satisfying(c.spec)),
                          answers \in Answers(c.f \/ ~creates \/ fails # {})} :
                      fails \in Failing((IF had /\ c.f THEN {"remove_env"} ELSE {})
                                   \cup (IF creates THEN {"create_env"} ELSE {}), {})} :
           c \in [spec : Specs, f : BOOLEAN]}

CoreInstallRun(i) ==
    core_install_package(Now, i.spec, i.is_forcing, Bk(i.fails, i.ver), i.answers)

CoreInstall == \E i \in CoreInstallInputs : Commit(CoreInstallRun(i))

(* condax remove, core.py *)
CoreRemoveInputs ==
    UNION {{In(Unpinned(package), FALSE, fails, 1, {}, FALSE, FALSE) :
               fails \in Failing(IF is_env(fs, package) THEN {"remove_env"} ELSE {}, {})} :
           package \in Envs}

CoreRemoveRun(i) == core_remove_package(Now, i.spec.name, Bk(i.fails, i.ver))

CoreRemove == \E i \in CoreRemoveInputs : Commit(CoreRemoveRun(i))

(* condax update, core.py *)
CoreUpdateInputs ==
    UNION {LET tracked == is_env(fs, c.spec.name)
           IN  UNION {{In(c.spec, c.f, fails, ver, answers, FALSE, FALSE) :
                          ver \in Release(tracked /\ fails = {}, Satisfying(c.spec)),
                          answers \in Answers(c.f \/ ~tracked \/ fails # {})} :
                      fails \in Failing(IF tracked THEN {"update_env"} ELSE {}, {})} :
           c \in [spec : Specs, f : Flag(DOMAIN bin # {})]}

CoreUpdateRun(i) ==
    core_update_package(Now, i.spec, i.is_forcing, Bk(i.fails, i.ver), i.answers)

CoreUpdate == \E i \in CoreUpdateInputs : Commit(CoreUpdateRun(i))

(* condax inject, core.py: the packages of Injectable into an environment *)
CoreInjectInputs ==
    UNION {LET tracked == is_env(fs, c.env)
           IN  UNION {{In(Unpinned(c.env), f, fails, 1, answers, FALSE, c.inc) :
                          answers \in Answers(f \/ ~tracked \/ ~c.inc \/ fails # {})} :
                      f \in Flag(tracked /\ c.inc /\ DOMAIN bin # {}),
                      fails \in Failing(IF tracked THEN {"install"} ELSE {}, {})} :
           c \in [env : Envs, inc : BOOLEAN]}

CoreInjectRun(i) ==
    core_inject_package_to(Now, i.spec.name, SetToSeq(Injectable), i.is_forcing,
                           i.include_apps, Bk(i.fails, i.ver), i.answers)

CoreInject == \E i \in CoreInjectInputs : Commit(CoreInjectRun(i))

(* condax uninject, core.py: the packages of Injectable from an environment *)
CoreUninjectInputs ==
    UNION {LET injected == is_env(fs, env_name) /\ DOMAIN meta[env_name].injected # {}
           IN  {In(Unpinned(env_name), FALSE, fails, 1, {}, FALSE, FALSE) :
                   fails \in Failing(IF injected THEN {"uninstall"} ELSE {}, {})} :
           env_name \in Envs}

CoreUninjectRun(i) ==
    core_uninject_package_from(Now, i.spec.name, Injectable, Bk(i.fails, i.ver))

CoreUninject == \E i \in CoreUninjectInputs : Commit(CoreUninjectRun(i))

\* the inputs of an Inject or Uninject of the packages `names`
InjectIn(env, names, is_forcing, include_apps, fails, answers) ==
    [env |-> env, names |-> names, is_forcing |-> is_forcing,
     include_apps |-> include_apps, fails |-> fails, answers |-> answers]

\* the package lists a user hands to inject and uninject
Requests == SUBSET AllPkgs \ {{}}

(* condax inject, core.py: any packages into an environment, the name of its *)
(* main package among them                                                    *)
CoreInjectSomeInputs ==
    UNION {LET tracked == is_env(fs, c.env)
           IN  UNION {{InjectIn(c.env, c.names, f, c.inc, fails, answers) :
                          answers \in Answers(f \/ ~tracked \/ ~c.inc \/ fails # {})} :
                      f \in Flag(tracked /\ c.inc /\ DOMAIN bin # {}),
                      fails \in Failing(IF tracked THEN {"install"} ELSE {}, {})} :
           c \in [env : Envs, names : Requests, inc : BOOLEAN]}

CoreInjectSomeRun(i) ==
    core_inject_package_to(Now, i.env, SetToSeq(i.names), i.is_forcing,
                           i.include_apps, Bk(i.fails, 1), i.answers)

CoreInjectSome == \E i \in CoreInjectSomeInputs : Commit(CoreInjectSomeRun(i))

(* condax uninject, core.py: any packages from an environment *)
CoreUninjectSomeInputs ==
    UNION {LET found == is_env(fs, c.env) /\ meta[c.env].present
                            /\ c.names \cap DOMAIN meta[c.env].injected # {}
           IN  {InjectIn(c.env, c.names, FALSE, FALSE, fails, {}) :
                   fails \in Failing(IF found THEN {"uninstall"} ELSE {}, {})} :
           c \in [env : Envs, names : Requests]}

CoreUninjectSomeRun(i) ==
    core_uninject_package_from(Now, i.env, i.names, Bk(i.fails, 1))

CoreUninjectSome == \E i \in CoreUninjectSomeInputs : Commit(CoreUninjectSomeRun(i))

\* the commands as the class Condax runs them; packages are injected and
\* uninjected by core.py, which shares the metadata file and the wrappers
Next ==
    \/ CondaxInstall
    \/ CondaxRemove
    \/ CondaxUpdate
    \/ CoreInject
    \/ CoreUninject

Spec == Init /\ [][Next]_vars

\* the commands as core.py runs them
NextCore ==
    \/ CoreInstall
    \/ CoreRemove
    \/ CoreUpdate
    \/ CoreInject
    \/ CoreUninject

SpecCore == Init /\ [][NextCore]_vars

\* an operation whose backend commands all succeed and which ends without an
\* error
Completes(i, R) == i.fails = {} /\ R.err = None /\ Commit(R)

\* the commands of the class Condax and of core.py, each completing without
\* an error
NextCompleting ==
    \/ \E i \in CondaxInstallInputs : Completes(i, CondaxInstallRun(i))
    \/ \E i \in CondaxRemoveInputs : Completes(i, CondaxRemoveRun(i))
    \/ \E i \in CondaxUpdateInputs : Completes(i, CondaxUpdateRun(i))
    \/ \E i \in CoreUpdateInputs : Completes(i, CoreUpdateRun(i))
    \/ \E i \in CoreInjectInputs : Completes(i, CoreInjectRun(i))
    \/ \E i \in CoreUninjectInputs : Completes(i, CoreUninjectRun(i))

SpecCompleting == Init /\ [][NextCompleting]_vars

\* what a fresh install of release ver of jq leaves behind on an empty disk
FreshlyInstalled(ver) ==
    core_install_package(
        Start([e \in Envs |-> "absent"], [e \in Envs |-> NoPkgs], [e \in Envs |-> NoMeta],
              EmptyBin),
        Unpinned("jq"), FALSE, Bk({}, ver), {})

\* jq is installed; the bin directory may hold a foreign file named like the app of yq
InitInject ==
    /\ nt \in BOOLEAN
    /\ \E ver \in Releases("jq"), foreign \in BOOLEAN :
         /\ fs = FreshlyInstalled(ver).fs
         /\ pkgs = FreshlyInstalled(ver).pkgs
         /\ meta = FreshlyInstalled(ver).meta
         /\ bin = IF foreign
                  THEN Put(FreshlyInstalled(ver).bin,
                           get_wrapper_name([stem |-> "y", ext |-> ExeExt]), Other)
                  ELSE FreshlyInstalled(ver).bin

\* injections of any packages into an installed environment, and their removal
NextInject ==
    \/ CoreInjectSome
    \/ CoreUninjectSome

SpecInject == InitInject /\ [][NextInject]_vars

(* condax update --all *)

\* the inputs of one update --all: fails[env] and ver[env] are the failing
\* backend commands and the release the solver picks in the Update of env
AllIn(order, is_forcing, fails, ver, answers) ==
    [order |-> order, is_forcing |-> is_forcing, fails |-> fails, ver |-> ver,
     answers |-> answers]

\* what the backend can do in the Updates of the tracked environments
AllFails(then) ==
    {[jq |-> a, rg |-> b] :
        a \in (IF is_env(fs, "jq") THEN Failing({"update_env"}, then) ELSE {{}}),
        b \in (IF is_env(fs, "rg") THEN Failing({"update_env"}, then) ELSE {{}})}
AllReleases ==
    {[jq |-> a, rg |-> b] :
        a \in Release(is_env(fs, "jq"), Releases("jq")),
        b \in Release(is_env(fs, "rg"), Releases("rg"))}

CondaxUpdateAllInputs ==
    UNION {{AllIn(order, f, fails, ver, answers) :
               order \in Flag(Cardinality(find_envs(fs)) > 1),
               fails \in AllFails({"create_env"}),
               ver \in AllReleases,
               answers \in Answers(f)} :
           f \in Flag(DOMAIN bin # {})}

CondaxUpdateAllRun(i) ==
    Condax_update_all_packages(Now, i.order, i.is_forcing,
                               [e \in Envs |-> Bk(i.fails[e], i.ver[e])], i.answers, FALSE)

CondaxUpdateAll == \E i \in CondaxUpdateAllInputs : Commit(CondaxUpdateAllRun(i))

CoreUpdateAllInputs ==
    UNION {{AllIn(FALSE, f, fails, ver, answers) :
               fails \in AllFails({}),
               ver \in AllReleases,
               answers \in Answers(f)} :
           f \in Flag(DOMAIN bin # {})}

CoreUpdateAllRun(i) ==
    core_update_all_packages(Now, i.is_forcing,
                             [e \in Envs |-> Bk(i.fails[e], i.ver[e])], i.answers)

CoreUpdateAll == \E i \in CoreUpdateAllInputs : Commit(CoreUpdateAllRun(i))

\* installs, and updates of all the environments at once by either implementation
NextAll ==
    \/ CondaxInstall
    \/ CondaxUpdateAll
    \/ CoreUpdateAll

SpecAll == Init /\ [][NextAll]_vars

----------------------------------------------------------------------------
(* The link manager on its own: condax/condax/links.py and the link functions *)
(* of condax/core.py, called with any file of an environment and any names     *)

\* both environments as the backend creates them, jq with release ver
Created(ver) == [e \in Envs |-> [p \in AllPkgs |-> IF p # e THEN 0
                                                   ELSE IF e = "jq" THEN ver ELSE 1]]

\* the files of an environment
Files(env) ==
    {ExePath(env, fl) : fl \in UNION {Manifest(p, pkgs[env][p]) :
                                         p \in {q \in AllPkgs : pkgs[env][q] # 0}}}

\* the names a caller can ask remove_links for
Removable == UNION {Names(Files(env)) : env \in Envs}

InitLinks ==
    /\ nt \in BOOLEAN
    /\ fs = [e \in Envs |-> "env"]
    /\ pkgs \in {Created(ver) : ver \in Releases("jq")}
    /\ meta = [e \in Envs |-> NoMeta]
    /\ bin \in {[n \in N |-> Other] :
                   N \in SUBSET {get_wrapper_name([stem |-> st, ext |-> ExeExt]) :
                                    st \in {"a", "c"}}}

LinkIn(env, exes, names, is_forcing, answers) ==
    [env |-> env, exes |-> exes, names |-> names, is_forcing |-> is_forcing,
     answers |-> answers]

\* create_link(env, exe, location, is_forcing) and the answer to its prompt
LinkCreateInputs ==
    UNION {{LinkIn(c.env, {exe}, <<>>, c.f, answers) :
               exe \in Files(c.env),
               answers \in Answers(c.f)} : c \in [env : Envs, f : BOOLEAN]}

LinkCreateRun(i) ==
    create_link(Now, i.env, CHOOSE exe \in i.exes : TRUE, i.is_forcing, i.answers)

LinkCreate == \E i \in LinkCreateInputs : Commit(LinkCreateRun(i))

\* create_links(env, executables_to_link, location, is_forcing)
LinksCreateInputs ==
    UNION {{LinkIn(c.env, exes, <<>>, c.f, answers) :
               exes \in SUBSET Files(c.env) \ {{}},
               answers \in Answers(c.f)} : c \in [env : Envs, f : BOOLEAN]}

LinksCreateRun(i) == create_links(Now, i.env, i.exes, i.is_forcing, i.answers)

LinksCreate == \E i \in LinksCreateInputs : Commit(LinksCreateRun(i))

\* remove_links(env, executables_to_unlink, location): one or two names, in
\* either order
LinksRemoveInputs ==
    {LinkIn(env, {}, Iterate(names, rev), FALSE, {}) :
        env \in Envs,
        names \in {N \in SUBSET Removable : Cardinality(N) \in 1..2},
        rev \in BOOLEAN}

LinksRemoveRun(i) == remove_links(Now, i.env, i.names)

LinksRemove == \E i \in LinksRemoveInputs : Commit(LinksRemoveRun(i))

\* create_link(package, exe, is_forcing) of core.py
CoreLinkCreateRun(i) ==
    core_create_link(Now, i.env, CHOOSE exe \in i.exes : TRUE, i.is_forcing, i.answers)

CoreLinkCreate == \E i \in LinkCreateInputs : Commit(CoreLinkCreateRun(i))

\* remove_links(package, app_names_to_unlink) of core.py
CoreLinksRemoveRun(i) == core_remove_links(Now, i.env, i.names)

CoreLinksRemove == \E i \in LinksRemoveInputs : Commit(CoreLinksRemoveRun(i))

NextLinks ==
    \/ LinkCreate
    \/ LinksCreate
    \/ LinksRemove
    \/ CoreLinkCreate
    \/ CoreLinksRemove

SpecLinks == InitLinks /\ [][NextLinks]_vars

----------------------------------------------------------------------------
(* The text of a wrapper: what create_link writes for a prefix and an          *)
(* executable path.  bin holds the lines of each file.                         *)

InitShim ==
    /\ nt \in BOOLEAN
    /\ fs = [e \in Envs |-> "absent"]
    /\ pkgs = [e \in Envs |-> NoPkgs]
    /\ meta = [e \in Envs |-> NoMeta]
    /\ bin = <<>>

\* the values of CONDAX_HIDE_EXITCODE, which only the POSIX branch reads
EnvValues ==
    {Unset} \cup
    {SetTo(str) : str \in {<<>>, <<"0">>, <<"1">>, <<"2", "0">>, <<"-", "1">>,
                           <<"f", "a", "l", "s", "e">>, <<"F", "a", "l", "s", "e">>,
                           <<"t", "r", "u", "e">>, <<"y", "e", "s">>, <<"n", "o">>}}

\* the prefixes, executable paths and values of CONDAX_HIDE_EXITCODE
ShimInputs ==
    [env : Paths, exe : [dir : Paths, name : {"a"}],
     value : IF nt THEN {Unset} ELSE EnvValues]

ShimRun(i) == script_lines(i.env, PathStr(i.exe), ~nt /\ to_bool(i.value))

\* `with open(script_path, "w") as fo: fo.writelines(script_lines)`
ShimWrite ==
    \E i \in ShimInputs :
        /\ bin' = [n \in {get_wrapper_name([stem |-> i.exe.name, ext |-> ""])} |-> ShimRun(i)]
        /\ UNCHANGED <<fs, pkgs, meta, nt>>

SpecShim == InitShim /\ [][ShimWrite]_vars

----------------------------------------------------------------------------
(* Executable discovery on its own: one prefix, whose conda-meta directory  *)
(* pkgs holds; bin is what the last find_exes gave and meta what the last    *)
(* determine_executables_from_env gave.                                      *)

\* the conda-meta directories of the environments with some of the packages
CondaMetaDirs == {{History} \cup {MetaFile(n) : n \in N} : N \in SUBSET PkgNames}

\* before the first call
NotCalled == [package |-> <<>>, result |-> [err |-> None, exes |-> {}]]

InitExes ==
    /\ nt \in BOOLEAN
    /\ fs = [e \in Envs |-> "env"]
    /\ pkgs \in CondaMetaDirs
    /\ meta = NotCalled
    /\ bin = NotCalled

\* the packages asked for: the known ones and one that no environment has
ExesInputs == PkgNames \cup {<<"foo">>}

FindExesRun(package) == env_info_find_exes(pkgs, "jq", package)

FindExes ==
    \E package \in ExesInputs :
        /\ bin' = [package |-> package, result |-> FindExesRun(package)]
        /\ UNCHANGED <<fs, pkgs, meta, nt>>

DetermineExesRun(package) == conda_determine_executables_from_env(pkgs, "jq", package)

DetermineExes ==
    \E package \in ExesInputs :
        /\ meta' = [package |-> package, result |-> DetermineExesRun(package)]
        /\ UNCHANGED <<fs, pkgs, bin, nt>>

NextExes == FindExes \/ DetermineExes

SpecExes == InitExes /\ [][NextExes]_vars

----------------------------------------------------------------------------
(* Repair on its own: environments as install and inject of core.py leave    *)
(* them, and a bin directory that holds wrappers of either environment,      *)
(* current or stale, next to files that are no wrappers.                     *)

WName(stem) == get_wrapper_name([stem |-> stem, ext |-> ExeExt])

WrapperOf(env, stem) == Shim(env, ExePath(env, F("bin", stem)))

\* the packages of a tracked environment: jq at release ver, with yq unless
\* `yq` is "no"; rg at release rgver
PkgsOf(env, ver, rgver, yq) ==
    [p \in AllPkgs |-> IF p = env THEN (IF env = "jq" THEN ver ELSE rgver)
                       ELSE IF p = "yq" /\ env = "jq" /\ yq # "no" THEN 1 ELSE 0]

\* the metadata install and inject of core.py leave for it
MetaOf(f, pk, env, yq) ==
    [present |-> TRUE, name |-> env,
     apps |-> Names(determine_executables_from_env(f, pk, env, env).exes),
     injected |-> [p \in (IF env = "jq" /\ yq # "no" THEN {"yq"} ELSE {}) |->
                      InjectedRecord(Names(determine_executables_from_env(f, pk, env, p).exes),
                                     yq = "exposed")],
     defect |-> NoDefect]

\* what the bin directory holds under the name of each app
BinChoices ==
    [a : {"none", "jq", "rg", "unparsable"},
     c : {"none", "jq", "rg", "other"},
     y : {"none", "jq", "dangling", "symlink"}]

FileOfChoice(stem, choice) ==
    IF choice \in Envs THEN WrapperOf(choice, stem) ELSE FileOfKind(choice)

BinOf(ch) ==
    [n \in {WName(st) : st \in {st \in {"a", "c", "y"} : ch[st] # "none"}} |->
        FileOfChoice(n.stem, ch[n.stem])]

InitFix ==
    /\ nt \in BOOLEAN
    /\ \E tracked \in SUBSET Envs, ver \in Releases("jq"), rgver \in {1, 2},
          yq \in {"no", "hidden", "exposed"} :
         /\ "jq" \notin tracked => yq = "no" /\ ver = 1
         /\ "rg" \notin tracked \/ ~nt => rgver = 1
         /\ fs = [e \in Envs |-> IF e \in tracked THEN "env" ELSE "absent"]
         /\ pkgs = [e \in Envs |-> IF e \in tracked THEN PkgsOf(e, ver, rgver, yq) ELSE NoPkgs]
         /\ meta = [e \in Envs |->
                       IF e \in tracked
                       THEN MetaOf([x \in Envs |-> "env"], [x \in Envs |-> PkgsOf(x, ver, rgver, yq)],
                                   e, yq)
                       ELSE NoMeta]
    /\ bin \in {BinOf(ch) : ch \in BinChoices}

CorePruneRun == core_prune_links(Now)

CorePrune == Commit(CorePruneRun)

CoreFixLinksRun == core_fix_links(Now)

CoreFixLinks == Commit(CoreFixLinksRun)

NextFix == CorePrune \/ CoreFixLinks

SpecFix == InitFix /\ [][NextFix]_vars

----------------------------------------------------------------------------
(* One backend invocation: Conda._run and the process it starts, connected   *)
(* by the two pipes of subprocess.Popen(stdout=PIPE, stderr=PIPE).  Here     *)
(* pkgs is the writes the process has still to do (each one line to "out" or *)
(* "err"), fs tells whether it has exited, bin holds the number of lines in  *)
(* each pipe, and meta is the position of _run with its two flags.           *)

\* the process writes at most MaxWrites lines
MaxWrites == 4
\* a pipe holds at most PipeCap lines; a write to a full pipe blocks
PipeCap == 2

RECURSIVE Programs(_)
Programs(n) ==
    IF n = 0 THEN {<<>>}
    ELSE Programs(n - 1) \cup
         {Append(q, w) : q \in {r \in Programs(n - 1) : Len(r) = n - 1}, w \in {"out", "err"}}

InitRun ==
    /\ nt = FALSE
    /\ pkgs \in Programs(MaxWrites)
    /\ fs = "running"
    /\ bin = [out |-> 0, err |-> 0]
    /\ meta = [pc |-> "stdout", stdout_done |-> FALSE, stderr_done |-> FALSE]

\* the process writes its next line, when the pipe has room for it
ProcessWrites ==
    /\ fs = "running"
    /\ pkgs # <<>>
    /\ bin[Head(pkgs)] < PipeCap
    /\ bin' = [bin EXCEPT ![Head(pkgs)] = @ + 1]
    /\ pkgs' = Tail(pkgs)
    /\ UNCHANGED <<fs, meta, nt>>

\* the process exits, which closes its ends of both pipes
ProcessExits ==
    /\ fs = "running"
    /\ pkgs = <<>>
    /\ fs' = "exited"
    /\ UNCHANGED <<pkgs, bin, meta, nt>>

\* stream.readline() returns: with a line when the pipe holds one, with "" at
\* the end of the stream; until then it blocks
CanRead(stream) == bin[stream] > 0 \/ fs = "exited"

\* the while condition after stderr_done has been assigned
LoopAgain(stdout_done, stderr_done) == ~stdout_done \/ ~stderr_done

\* stdout_done = self._log_stream(p.stdout, stdout_level)
LogStdout ==
    /\ meta.pc = "stdout"
    /\ CanRead("out")
    /\ bin' = [bin EXCEPT !.out = IF @ > 0 THEN @ - 1 ELSE @]
    /\ meta' = [meta EXCEPT !.pc = "stderr", !.stdout_done = (bin.out = 0)]
    /\ UNCHANGED <<fs, pkgs, nt>>

\* stderr_done = self._log_stream(p.stderr, stderr_level), and the loop test
LogStderr ==
    /\ meta.pc = "stderr"
    /\ CanRead("err")
    /\ bin' = [bin EXCEPT !.err = IF @ > 0 THEN @ - 1 ELSE @]
    /\ meta' = [meta EXCEPT !.stderr_done = (bin.err = 0),
                            !.pc = IF LoopAgain(meta.stdout_done, bin.err = 0)
                                   THEN "stdout" ELSE "wait"]
    /\ UNCHANGED <<fs, pkgs, nt>>

\* ret_code = p.wait(), and the return of the CompletedProcess
Wait ==
    /\ meta.pc = "wait"
    /\ fs = "exited"
    /\ meta' = [meta EXCEPT !.pc = "returned"]
    /\ UNCHANGED <<fs, pkgs, bin, nt>>

NextRun == ProcessWrites \/ ProcessExits \/ LogStdout \/ LogStderr \/ Wait

SpecRun == InitRun /\ [][NextRun]_vars

----------------------------------------------------------------------------
(* The metadata store on its own: condax/condax/metadata/metadata.py *)

\* the user deletes prefix / condax_metadata.json
DeleteMetadataFile(S, prefix) == [S EXCEPT !.meta[prefix] = NoMeta]

\* what a fresh install of release ver of jq by the class Condax leaves behind
\* on an empty disk
CondaxInstalled(ver) ==
    Condax_install_package(
        Start([e \in Envs |-> "absent"], [e \in Envs |-> NoPkgs], [e \in Envs |-> NoMeta],
              EmptyBin),
        Unpinned("jq"), FALSE, Bk({}, ver), {})

\* the packages the backend has installed into the environment of jq besides jq
Extras == AllPkgs \ {"jq"}

\* jq is installed, and the backend has installed the packages of Extras into
\* its environment
InitMeta ==
    /\ nt \in BOOLEAN
    /\ \E ver \in Releases("jq") :
         LET S == InstallEffect(CondaxInstalled(ver), "jq", Extras, TRUE, 1)
         IN  fs = S.fs /\ pkgs = S.pkgs /\ meta = S.meta /\ bin = S.bin

StoreCreate == \E prefix \in Envs : Commit(metadata_create(Now, prefix, None, FALSE, {}))

StoreLoad == \E prefix \in Envs : Commit(metadata_load(Now, prefix))

StoreInject ==
    \E prefix \in Envs, names \in SUBSET Extras \ {{}}, include_apps \in BOOLEAN :
      Commit(metadata_inject(Now, prefix, SetToSeq(names), include_apps))

\* the user deletes a metadata file
FileDeleted ==
    \E prefix \in Envs : meta[prefix].present /\ Commit(DeleteMetadataFile(Now, prefix))

\* a metadata file as save wrote it becomes structurally invalid
FileDamaged ==
    \E prefix \in Envs :
      /\ meta[prefix].present
      /\ meta[prefix].defect = NoDefect
      /\ \E defect \in Defects(meta[prefix]) :
           Commit([Now EXCEPT !.meta[prefix].defect = defect])

NextMeta ==
    \/ StoreCreate
    \/ StoreLoad
    \/ StoreInject
    \/ FileDeleted
    \/ FileDamaged

SpecMeta == InitMeta /\ [][NextMeta]_vars

----------------------------------------------------------------------------
(* Updates of an installed environment across releases that move, rename or  *)
(* add executables: release 3 of jq has c under sbin where release 2 has it  *)
(* under bin, release 2 of rg has c as a script where release 1 has a binary, *)
(* and release 2 of yq has the executable z that release 1 lacks.             *)

\* the last release of a package in the channels
LastRelease(p) == IF p = "jq" THEN MaxVer + 1 ELSE 2

\* the backend of an update that succeeds and solves to the releases ver of
\* the main package and iver of the injected ones
Solves(ver, iver) == [Bk({}, ver) EXCEPT !.iver = iver]

\* what an install of release ver of env on an empty disk leaves behind,
\* followed by an inject of yq unless `yq` is "no"
InstalledAt(env, ver, yq) ==
    Then(core_install_package(
             Start([e \in Envs |-> "absent"], [e \in Envs |-> NoPkgs],
                   [e \in Envs |-> NoMeta], EmptyBin),
             Unpinned(env), FALSE, Bk({}, ver), {}),
         LAMBDA S : IF yq = "no" THEN S
                    ELSE core_inject_package_to(S, env, <<"yq">>, FALSE, yq = "exposed",
                                                Bk({}, 1), {}))

InitUpdate ==
    /\ nt \in BOOLEAN
    /\ \E env \in Envs : \E ver \in 1..LastRelease(env), yq \in {"no", "hidden", "exposed"} :
         \E S \in {InstalledAt(env, ver, yq)} :
            fs = S.fs /\ pkgs = S.pkgs /\ meta = S.meta /\ bin = S.bin

UpdateInputs ==
    [env : Envs, is_forcing : BOOLEAN, ver : 1..(MaxVer + 1), iver : 1..2]

Updatable(i) == is_env(fs, i.env) /\ i.ver <= LastRelease(i.env)

ClassUpdateRun(i) ==
    Condax_update_package(Now, Unpinned(i.env), i.is_forcing, Solves(i.ver, i.iver),
                          IF i.is_forcing THEN {} ELSE DOMAIN bin, FALSE)

ClassUpdate == \E i \in UpdateInputs : Updatable(i) /\ Commit(ClassUpdateRun(i))

CoreUpdateInPlaceRun(i) ==
    core_update_package(Now, Unpinned(i.env), i.is_forcing, Solves(i.ver, i.iver),
                        IF i.is_forcing THEN {} ELSE DOMAIN bin)

CoreUpdateInPlace == \E i \in UpdateInputs : Updatable(i) /\ Commit(CoreUpdateInPlaceRun(i))

NextUpdate == ClassUpdate \/ CoreUpdateInPlace

SpecUpdate == InitUpdate /\ [][NextUpdate]_vars

----------------------------------------------------------------------------
(* Two invocations of the metadata inject on the environment of jq at the    *)
(* same time, each for one package of Extras.  An invocation is two steps:   *)
(* it loads the file into an object of its own, and it injects into that     *)
(* object and saves it.  Here bin holds, for each invocation, its position,  *)
(* its arguments and the object it loaded; `core` tells whether the two run  *)
(* _inject_to_metadata of core.py or inject of the metadata store.           *)

Invocations == {"first", "second"}

\* `meta = load(prefix)` / `meta = _load_metadata(env)`
inject_load(S, prefix, core) ==
    IF core THEN core_load_metadata(S, prefix) ELSE metadata_load(S, prefix)

\* an inject that reads the file again before it injects and saves
inject_reloaded(S, prefix, m, name, include_apps, core) ==
    IF core THEN core_inject_loop(S, prefix, S.meta[prefix], <<name>>, include_apps)
    ELSE metadata_inject_loop(S, prefix, S.meta[prefix], <<name>>, include_apps)

\* the statements after the load, on the object `m` it returned: the loop
\* over packages_to_inject and meta.save()
inject_loaded(S, prefix, m, name, include_apps, core) ==
    IF core THEN core_inject_loop(S, prefix, m, <<name>>, include_apps)
    ELSE metadata_inject_loop(S, prefix, m, <<name>>, include_apps)

InitRace ==
    /\ nt \in BOOLEAN
    /\ \E ver \in Releases("jq") :
         LET S == InstallEffect(CondaxInstalled(ver), "jq", Extras, TRUE, 1)
         IN  fs = S.fs /\ pkgs = S.pkgs /\ meta = S.meta
    /\ \E name \in [Invocations -> Extras], core \in BOOLEAN,
          include_apps \in [Invocations -> BOOLEAN] :
         /\ name["first"] # name["second"]
         /\ bin = [i \in Invocations |->
                      [pc |-> "load", name |-> name[i], include_apps |-> include_apps[i],
                       core |-> core, m |-> NoMeta]]

RaceLoad ==
    \E i \in Invocations : \E T \in {inject_load(Now, "jq", bin[i].core)} :
        /\ bin[i].pc = "load"
        /\ fs' = T.fs /\ pkgs' = T.pkgs /\ meta' = T.meta /\ nt' = nt
        /\ bin' = [bin EXCEPT ![i].pc = IF T.err = None THEN "save" ELSE "failed",
                              ![i].m = T.meta["jq"]]

RaceSave ==
    \E i \in Invocations :
    \E T \in {inject_loaded(Now, "jq", bin[i].m, bin[i].name, bin[i].include_apps,
                            bin[i].core)} :
        /\ bin[i].pc = "save"
        /\ fs' = T.fs /\ pkgs' = T.pkgs /\ meta' = T.meta /\ nt' = nt
        /\ bin' = [bin EXCEPT ![i].pc = IF T.err = None THEN "done" ELSE "failed"]

NextRace == RaceLoad \/ RaceSave

SpecRace == InitRace /\ [][NextRace]_vars

----------------------------------------------------------------------------
(* Properties.  An operation is judged at every reachable state and for      *)
(* every input the state machine can hand it: R is what the operation leaves *)
(* behind when it runs on the current state.                                 *)

\* the names an app can have on this platform
AppNames == {[stem |-> st, ext |-> ExeExt] : st \in {"a", "b", "c", "y"}}

\* the wrapper files of b that run in environment env
WrappersOf(b, env) == {w \in DOMAIN b : read_prefix(b, w) = env}

\* the backend was not invoked
NoBackendCall(R) == Calls(R.trace) = <<>>

\* nothing on disk differs from the current state
Unchanged(R) == R.fs = fs /\ R.pkgs = pkgs /\ R.meta = meta /\ R.bin = bin

\* C1: remove_links(env_prefix, app_names, bin_dir) never deletes a wrapper
\* whose parsed target prefix differs from env_prefix: every requested name
\* whose wrapper parses to another environment's prefix is still present and
\* unchanged after the call.
C1_RemoveLinksKeepsOthers ==
    \A env \in Envs, N \in SUBSET AppNames, rev \in BOOLEAN :
      LET R == remove_links(Now, env, Iterate(N, rev))
      IN  \A name \in N :
            LET w == get_wrapper_name(name)
            IN  read_prefix(bin, w) \notin {None, env}
                    => w \in DOMAIN R.bin /\ R.bin[w] = bin[w]

\* the snapshots Update takes before and after a backend update that succeeds
ExesBefore(i) ==
    Condax_find_all_exes(Now, i.spec.name, metadata_load(Now, i.spec.name).meta[i.spec.name]).exes
ExesAfter(i) ==
    LET T == Conda_update_env(metadata_load(Now, i.spec.name), i.spec.name, Bk(i.fails, i.ver))
    IN  Condax_find_all_exes(T, i.spec.name, T.meta[i.spec.name]).exes

\* an Update of a tracked environment whose backend update succeeds
UpdateSucceeds(i) ==
    /\ is_env(fs, i.spec.name)
    /\ "update_env" \notin i.fails
    /\ CondaxUpdateRun(i).err = None

\* wrappers for exactly apps_after - apps_before are created (an existing file
\* of that name the user declines to overwrite aside)
C2_Creates(i) ==
    LET R == CondaxUpdateRun(i)
        new == {get_wrapper_name(ExeName(e)) : e \in ExesAfter(i) \ ExesBefore(i)}
    IN  /\ R.written \subseteq new
        /\ \A e \in ExesAfter(i) \ ExesBefore(i) :
             LET w == get_wrapper_name(ExeName(e))
             IN  w \notin DOMAIN bin => w \in DOMAIN R.bin /\ R.bin[w] = Shim(i.spec.name, e)

\* wrappers for exactly apps_before - apps_after are removed
C2_Removes(i) ==
    LET R == CondaxUpdateRun(i)
        gone == {get_wrapper_name(n) :
                    n \in Names(ExesBefore(i) \ ExesAfter(i)) \ Names(ExesAfter(i))}
    IN  /\ R.deleted \subseteq gone
        /\ \A w \in gone \cap WrappersOf(bin, i.spec.name) : w \notin DOMAIN R.bin

\* the wrapper of an app present in both snapshots is neither rewritten nor removed
C2_KeepsCommon(i) ==
    LET R == CondaxUpdateRun(i)
    IN  \A e \in ExesBefore(i) \cap ExesAfter(i) :
          get_wrapper_name(ExeName(e)) \notin R.written \cup R.deleted

\* C2: an Update of a tracked environment whose backend update succeeds
\* creates wrappers for exactly apps_after - apps_before, removes wrappers for
\* exactly apps_before - apps_after, and neither rewrites nor removes the
\* wrapper of an app present in both snapshots.
C2_UpdateAppliesDelta ==
    \A i \in CondaxUpdateInputs :
      UpdateSucceeds(i) => C2_Creates(i) /\ C2_Removes(i) /\ C2_KeepsCommon(i)

\* C3: when the backend update exits non-zero during Update of a tracked
\* environment, Update does not surface the failure: the environment is
\* removed and reinstalled, so that it exists and is tracked on return.
C3_UpdateFailureRecreates ==
    \A i \in CoreUpdateInputs :
      LET R == CoreUpdateRun(i)
      IN  is_env(fs, i.spec.name) /\ "update_env" \in i.fails
              => /\ R.err = None
                 /\ is_env(R.fs, i.spec.name)
                 /\ R.meta[i.spec.name].present

\* the packages the metadata lists as injected when Update starts
InjectedBefore(i) == DOMAIN metadata_load(Now, i.spec.name).meta[i.spec.name].injected

\* the metadata a fresh install of the package records for the environment R holds
FreshMain(R, env) == MainOnly(env, Names(find_exes(R.fs, R.pkgs, env, env).exes))

C5_InstallExistingRefused ==
    /\ \A i \in CondaxInstallInputs :
         LET R == CondaxInstallRun(i)
         IN  fs[i.spec.name] = "env" /\ ~i.is_forcing
                 => R.err = "PackageInstalledError" /\ NoBackendCall(R) /\ Unchanged(R)
    /\ \A i \in CoreInstallInputs :
         LET R == CoreInstallRun(i)
         IN  fs[i.spec.name] = "env" /\ ~i.is_forcing
                 => R.err = "PackageInstalledError" /\ NoBackendCall(R) /\ Unchanged(R)

\* an Install without force finds the environment of its package
C5_Witness ==
    \E i \in CondaxInstallInputs :
      /\ fs[i.spec.name] = "env" /\ ~i.is_forcing
      /\ CondaxInstallRun(i).err = "PackageInstalledError"

\* what discovery finds for the main package of env in R
Discovered(R, env) == find_exes(R.fs, R.pkgs, env, env).exes

\* C6: Install with force true on an existing environment first removes the
\* old environment through the backend and only then creates the new one; it
\* completes without error and leaves the environment tracked, with metadata
\* and wrappers for the newly discovered apps.
C6_ForcedInstallReplaces ==
    \A i \in CondaxInstallInputs :
      LET env == i.spec.name
          R == CondaxInstallRun(i)
      IN  fs[env] = "env" /\ i.is_forcing /\ i.fails = {}
              => /\ Calls(R.trace) = <<"remove_env", "create_env">>
                 /\ R.err = None
                 /\ is_env(R.fs, env)
                 /\ R.pkgs[env][env] = i.ver
                 /\ R.meta[env] = FreshMain(R, env)
                 /\ \A e \in Discovered(R, env) :
                      /\ get_wrapper_name(ExeName(e)) \in DOMAIN R.bin
                      /\ R.bin[get_wrapper_name(ExeName(e))] = Shim(env, e)

\* a forced Install replaces an environment by one with other apps
C6_Witness ==
    \E i \in CondaxInstallInputs :
      /\ fs[i.spec.name] = "env" /\ i.is_forcing /\ i.fails = {}
      /\ CondaxInstallRun(i).err = None
      /\ Discovered(CondaxInstallRun(i), i.spec.name) # Discovered(Now, i.spec.name)

\* C7: Install signals NotAnEnv, and makes no backend call, whenever the
\* target path exists, is not a valid environment, and is non-empty or not a
\* directory; when the target path is absent or an empty directory, Install
\* proceeds to create the environment.
C7_InstallGuardsTarget ==
    \A i \in CondaxInstallInputs :
      LET R == CondaxInstallRun(i)
      IN  /\ fs[i.spec.name] \in {"junkdir", "file"}
                => R.err = "NotAnEnvError" /\ NoBackendCall(R) /\ Unchanged(R)
          /\ fs[i.spec.name] \in {"absent", "emptydir"}
                => R.err # "NotAnEnvError" /\ Calls(R.trace) = <<"create_env">>

\* one target is a directory with foreign files, another is an empty directory
C7_Witness ==
    \E i, j \in CondaxInstallInputs :
      /\ fs[i.spec.name] = "junkdir" /\ CondaxInstallRun(i).err = "NotAnEnvError"
      /\ fs[j.spec.name] \in {"absent", "emptydir"} /\ is_env(CondaxInstallRun(j).fs, j.spec.name)

\* the apps of release v of package p, whatever the environment
AppsOf(p, v) == {ExeName(fl) : fl \in {g \in Manifest(p, v) : InExeDir(g) /\ is_executable(g)}}

\* C8: after a successful Install of package p into an absent environment with
\* no conflicting wrappers, the environment exists, its metadata records
\* main_package.name = p with the apps discovery finds and no injected
\* package, and the bin directory holds exactly one wrapper per such app,
\* each targeting the environment of p.
C8_InstallFresh ==
    \A i \in CondaxInstallInputs :
      LET env == i.spec.name
          R == CondaxInstallRun(i)
      IN  /\ fs[env] = "absent" /\ i.fails = {}
          /\ \A n \in AppsOf(env, i.ver) : get_wrapper_name(n) \notin DOMAIN bin
          => /\ R.err = None
             /\ is_env(R.fs, env)
             /\ R.meta[env].present
             /\ R.meta[env].name = env
             /\ R.meta[env].apps = Names(Discovered(R, env))
             /\ DOMAIN R.meta[env].injected = {}
             /\ R.written = {get_wrapper_name(ExeName(e)) : e \in Discovered(R, env)}
             /\ \A e \in Discovered(R, env) :
                  R.bin[get_wrapper_name(ExeName(e))] = Shim(env, e)
             /\ \A w \in DOMAIN R.bin \ R.written : R.bin[w] = bin[w]

\* the state a fresh Install of a package with two apps leaves behind: the
\* environment, its metadata, and in the bin directory its two wrappers only
C8_Witness ==
    \E p \in Envs :
      /\ is_env(fs, p)
      /\ meta[p] = FreshMain(Now, p)
      /\ Cardinality(Discovered(Now, p)) = 2
      /\ DOMAIN bin = {get_wrapper_name(ExeName(e)) : e \in Discovered(Now, p)}
      /\ \A e \in Discovered(Now, p) : bin[get_wrapper_name(ExeName(e))] = Shim(p, e)

\* every unlink of the trace comes before the backend call that removes the environment
UnlinksFirst(tr) ==
    \A k, l \in 1..Len(tr) : tr[k] = "unlink" /\ tr[l] = "remove_env" => k < l

\* C9: Remove of a tracked environment unlinks every app of its full app set
\* before the backend destroys the environment; after Remove returns, the
\* environment is absent and no wrapper of the bin directory targets it.
C9_RemoveUnlinksAll ==
    \A i \in CondaxRemoveInputs :
      LET env == i.spec.name
          R == CondaxRemoveRun(i)
      IN  is_env(fs, env) /\ i.fails = {} /\ R.err = None
              => /\ UnlinksFirst(R.trace)
                 /\ ~exists(R.fs, env)
                 /\ WrappersOf(R.bin, env) = {}

\* C10: Remove of a package that is not a tracked environment is a no-op that
\* is not an error: no backend call is made, no wrapper is deleted, no
\* metadata file is created, and no error is signalled (an exception that
\* carries exit code 0 is taken for none).
C10_RemoveUntrackedNoOp ==
    \A i \in CoreRemoveInputs :
      LET R == CoreRemoveRun(i)
      IN  ~is_env(fs, i.spec.name)
              => /\ NoBackendCall(R)
                 /\ Unchanged(R)
                 /\ (R.err = None \/ R.code = 0)

\* C11: Update of an environment that is not tracked (its path is absent or
\* holds no valid environment) signals PackageNotInstalled, and does so
\* before the backend is invoked.
C11_UpdateUntrackedSignals ==
    /\ \A i \in CondaxUpdateInputs :
         LET R == CondaxUpdateRun(i)
         IN  ~is_env(fs, i.spec.name)
                 => R.err = "PackageNotInstalled" /\ NoBackendCall(R)
    /\ \A i \in CoreUpdateInputs :
         LET R == CoreUpdateRun(i)
         IN  ~is_env(fs, i.spec.name)
                 => R.err = "PackageNotInstalled" /\ NoBackendCall(R)

\* C12: Inject and Uninject of an environment that is not tracked signal
\* PackageNotInstalled before any backend call, and leave the metadata and
\* the bin directory as they were.
C12_InjectUntrackedSignals ==
    /\ \A i \in CoreInjectInputs :
         LET R == CoreInjectRun(i)
         IN  ~is_env(fs, i.spec.name)
                 => /\ R.err = "PackageNotInstalled"
                    /\ NoBackendCall(R)
                    /\ R.meta = meta /\ R.bin = bin
    /\ \A i \in CoreUninjectInputs :
         LET R == CoreUninjectRun(i)
         IN  ~is_env(fs, i.spec.name)
                 => /\ R.err = "PackageNotInstalled"
                    /\ NoBackendCall(R)
                    /\ R.meta = meta /\ R.bin = bin

\* C13: Inject of packages into a tracked environment with include_apps false
\* adds an injected record with include_apps false for each of them to the
\* metadata, and the bin directory is the same before and after: no wrapper
\* file appears, none changes.
C13_InjectWithoutApps ==
    \A i \in CoreInjectSomeInputs :
      LET R == CoreInjectSomeRun(i)
      IN  is_env(fs, i.env) /\ ~i.include_apps /\ i.fails = {}
              => /\ R.err = None
                 /\ \A p \in i.names :
                      /\ p \in DOMAIN R.meta[i.env].injected
                      /\ ~R.meta[i.env].injected[p].include_apps
                 /\ DOMAIN R.bin = DOMAIN bin
                 /\ R.bin = bin
                 /\ R.written = {}

\* yq is injected into jq without its apps, and the bin directory has no file
\* named like the app of yq
C13_Witness ==
    /\ is_env(fs, "jq")
    /\ "yq" \in DOMAIN meta["jq"].injected
    /\ ~meta["jq"].injected["yq"].include_apps
    /\ pkgs["jq"]["yq"] # 0
    /\ get_wrapper_name([stem |-> "y", ext |-> ExeExt]) \notin DOMAIN bin

\* the names of a request that the metadata of the environment lists as injected
Found(i) == i.names \cap DOMAIN meta[i.env].injected

\* C14: Uninject of names none of which is currently injected makes no backend
\* call, leaves the metadata as it is, deletes no wrapper and signals no
\* error; in a request that mixes injected names with others, the others cause
\* no error: the outcome is that of the request for the injected names alone.
C14_UninjectNotFound ==
    \A i \in CoreUninjectSomeInputs :
      LET R == CoreUninjectSomeRun(i)
      IN  is_env(fs, i.env) /\ meta[i.env].present
              => /\ Found(i) = {}
                     => /\ R.err = None
                        /\ NoBackendCall(R)
                        /\ Unchanged(R)
                        /\ R.deleted = {}
                 /\ Found(i) # {}
                     => R = core_uninject_package_from(Now, i.env, Found(i),
                                                       Bk(i.fails, 1))

\* an environment with an injected package gets a request that names none of
\* its injected packages and another that names one of them and a stranger
C14_Witness ==
    \E i, j \in CoreUninjectSomeInputs :
      /\ is_env(fs, i.env) /\ DOMAIN meta[i.env].injected # {}
      /\ Found(i) = {} /\ CoreUninjectSomeRun(i).err = None
      /\ is_env(fs, j.env)
      /\ Found(j) # {} /\ j.names \ Found(j) # {}
      /\ CoreUninjectSomeRun(j).err = None
      /\ DOMAIN CoreUninjectSomeRun(j).meta[j.env].injected
             = DOMAIN meta[j.env].injected \ j.names

\* the app names of the found packages of a request that were injected with
\* include_apps true
Exposed(i) ==
    UNION {meta[i.env].injected[p].apps :
              p \in {q \in Found(i) : meta[i.env].injected[q].include_apps}}

\* C15: Uninject of names that are currently injected removes those packages
\* with the backend, unlinks the apps of exactly those found packages whose
\* include_apps was true (no other file of the bin directory is deleted, the
\* apps of a package injected with include_apps false among them), and leaves
\* metadata without a record for any found name, with every other injected
\* record and the main package record unchanged.
C15_UninjectFound ==
    \A i \in CoreUninjectSomeInputs :
      LET R == CoreUninjectSomeRun(i)
          m == meta[i.env]
      IN  is_env(fs, i.env) /\ m.present /\ Found(i) # {} /\ i.fails = {}
              => /\ R.err = None
                 /\ Calls(R.trace) = <<"uninstall">>
                 /\ \A p \in AllPkgs :
                      R.pkgs[i.env][p] = IF p \in Found(i) THEN 0 ELSE pkgs[i.env][p]
                 /\ R.deleted \subseteq {get_wrapper_name(n) : n \in Exposed(i)}
                 /\ \A n \in Exposed(i) :
                      read_prefix(bin, get_wrapper_name(n)) = i.env
                          => get_wrapper_name(n) \notin DOMAIN R.bin
                 /\ \A w \in DOMAIN bin \ R.deleted : w \in DOMAIN R.bin /\ R.bin[w] = bin[w]
                 /\ DOMAIN R.meta[i.env].injected = DOMAIN m.injected \ Found(i)
                 /\ \A p \in DOMAIN m.injected \ Found(i) :
                      R.meta[i.env].injected[p] = m.injected[p]
                 /\ R.meta[i.env].name = m.name
                 /\ R.meta[i.env].apps = m.apps

\* of two injected packages, one exposed and one not, the request names the
\* exposed one, whose wrapper is in the bin directory, and the other stays
C15_Witness ==
    \E i \in CoreUninjectSomeInputs :
      /\ is_env(fs, i.env) /\ i.fails = {}
      /\ \E p \in Found(i), q \in DOMAIN meta[i.env].injected \ i.names :
           /\ meta[i.env].injected[p].include_apps
           /\ ~meta[i.env].injected[q].include_apps
           /\ meta[i.env].injected[q].apps # {}
      /\ CoreUninjectSomeRun(i).err = None
      /\ CoreUninjectSomeRun(i).deleted # {}

\* an injected name gets the record of this inject, whatever record it had
C19_Replaces(i) ==
    LET R == CoreInjectSomeRun(i)
    IN  \A p \in i.names :
          /\ p \in DOMAIN R.meta[i.env].injected
          /\ R.meta[i.env].injected[p]
                 = InjectedRecord(
                       Names(determine_executables_from_env(R.fs, R.pkgs, i.env, p).exes),
                       i.include_apps)

\* C19: after any sequence of inject and uninject operations on the metadata
\* of an environment, no injected record carries the name of the main package
\* (the injected records are keyed by name, so no two of them share one), and
\* an inject of a name that is injected already leaves the record of this
\* inject in the place of the prior one.
C19_NamesUnique ==
    /\ \A e \in Envs : meta[e].present => meta[e].name \notin DOMAIN meta[e].injected
    /\ \A i \in CoreInjectSomeInputs :
         is_env(fs, i.env) /\ i.fails = {} => C19_Replaces(i)

\* the elements of a list
Range(q) == {q[k] : k \in 1..Len(q)}

\* the apps of the main package and of the injected packages with include_apps true
ExposedApps(m) ==
    m.apps \cup UNION {m.injected[p].apps : p \in {q \in DOMAIN m.injected :
                                                     m.injected[q].include_apps}}

\* C18: the derived app set of the metadata of an environment is the union of
\* the apps of the main package and of the apps of every injected package
\* whose include_apps is true; the apps of an injected package with
\* include_apps false are not in it (unless another such record lists them).
C18_DerivedApps ==
    \A e \in Envs :
      meta[e].present
          => /\ CondaxMetaData_apps(meta[e]) = ExposedApps(meta[e])
             /\ Range(get_apps(meta[e])) = ExposedApps(meta[e])

\* what load leaves behind for a metadata file that is missing: a file on
\* disk that records the main package named after the prefix directory with
\* the apps a fresh scan finds, which is the record load returns
C16_Reconstructed(R, prefix, scan) ==
    /\ R.err = None
    /\ R.meta[prefix].present
    /\ R.meta[prefix].name = prefix
    /\ R.meta[prefix].apps = Names(scan.exes)
    /\ DOMAIN R.meta[prefix].injected = {}

\* C16: when the metadata file of a tracked environment is missing, load
\* reconstructs it: it returns a record whose apps are those of a fresh scan
\* of the environment for the main package, named after the prefix directory,
\* and a metadata file exists on disk afterwards.
C16_LoadReconstructs ==
    \A prefix \in Envs :
      is_env(fs, prefix)
          => /\ C16_Reconstructed(
                    metadata_load(DeleteMetadataFile(Now, prefix), prefix), prefix,
                    find_exes(fs, pkgs, prefix, prefix))
             /\ C16_Reconstructed(
                    core_load_metadata(DeleteMetadataFile(Now, prefix), prefix), prefix,
                    determine_executables_from_env(fs, pkgs, prefix, prefix))

\* C17: when the metadata file exists but is structurally invalid (a value of
\* the wrong type or a missing key, at the top level or inside a package
\* record), load signals BadMetadata and does not recover: the file on disk is
\* left as it is, nothing else is written and no record is returned, so that
\* an inject stops there as well.  A file as save wrote it loads without
\* error, as the record that was saved.
C17_LoadRejectsBadMetadata ==
    \A prefix \in Envs :
      meta[prefix].present
          => IF meta[prefix].defect # NoDefect
             THEN /\ metadata_load(Now, prefix).err = "BadMetadataError"
                  /\ Unchanged(metadata_load(Now, prefix))
                  /\ ~metadata__load(Now, prefix).found
                  /\ \A include_apps \in BOOLEAN :
                       LET R == metadata_inject(Now, prefix, <<"yq">>, include_apps)
                       IN  R.err = "BadMetadataError" /\ Unchanged(R)
             ELSE /\ metadata_load(Now, prefix).err = None
                  /\ metadata__load(Now, prefix).found
                  /\ metadata__load(Now, prefix).m = meta[prefix]

\* the metadata file of an environment with an injected package has a defect
\* inside the record of that package, and load signals BadMetadata
C17_Witness ==
    \E prefix \in Envs :
      /\ meta[prefix].present
      /\ meta[prefix].defect.at \in DOMAIN meta[prefix].injected
      /\ meta[prefix].defect.kind = "missing"
      /\ metadata_load(Now, prefix).err = "BadMetadataError"

\* C20: UpdateAll applies Update to every tracked environment under the
\* prefix root, one after another: whatever happens in the Update of one of
\* them, Update is attempted for each of the others.
C20_UpdateAllVisitsAll ==
    /\ \A i \in CondaxUpdateAllInputs : CondaxUpdateAllRun(i).updated = find_envs(fs)
    /\ \A i \in CoreUpdateAllInputs : CoreUpdateAllRun(i).updated = find_envs(fs)

\* the names of `todo` whose wrapper file remove_links deleted
WrappersDeleted(R, todo) == {n \in Range(todo) : get_wrapper_name(n) \in R.deleted}

\* C21: remove_links deletes the wrapper of a requested name when the wrapper
\* cannot be parsed, reporting it as a removal of unknown origin, and when its
\* parsed prefix is env_prefix; the names it reports as removed are exactly
\* those whose wrapper file it deleted.
C21_RemoveLinksReports ==
    \A i \in LinksRemoveInputs :
      LET R == LinksRemoveRun(i)
      IN  /\ \A n \in Range(i.names) :
               LET w == get_wrapper_name(n)
               IN  /\ w \in DOMAIN bin /\ bin[w].kind # "shim"
                        => w \in R.deleted /\ n \in R.flagged
                   /\ w \in DOMAIN bin /\ bin[w].kind = "shim" /\ bin[w].prefix = i.env
                        => w \in R.deleted
          /\ R.unlinked = WrappersDeleted(R, i.names)

\* the executable a create_link input names, and the path of its wrapper
ExeOf(i) == CHOOSE exe \in i.exes : TRUE
ScriptPath(i) == get_wrapper_name(ExeName(ExeOf(i)))

\* the prompt of create_link is shown and the answer is not y / yes
Declined(i) ==
    /\ ~i.is_forcing
    /\ ScriptPath(i) \in DOMAIN bin
    /\ ScriptPath(i) \notin i.answers

\* create_link returned False and left the bin directory as it was
NothingLinked(R, i) ==
    /\ ExeName(ExeOf(i)) \notin R.linked
    /\ R.bin = bin
    /\ R.written = {} /\ R.deleted = {}
    /\ R.err = None

\* C22: create_link with force false on a name whose wrapper exists, when the
\* confirmation is declined, returns false and modifies nothing: the file at
\* that name keeps its content and target.
C22_DeclinedLinkUntouched ==
    \A i \in LinkCreateInputs :
      Declined(i) => /\ NothingLinked(LinkCreateRun(i), i)
                     /\ NothingLinked(CoreLinkCreateRun(i), i)

\* a declined create_link for a wrapper that another environment owns
C22_Witness ==
    \E i \in LinkCreateInputs :
      /\ Declined(i)
      /\ bin[ScriptPath(i)].kind = "shim"
      /\ bin[ScriptPath(i)].prefix # i.env
      /\ NothingLinked(LinkCreateRun(i), i)

\* the file exists and create_link goes on to overwrite it
Overwrites(i) ==
    /\ ScriptPath(i) \in DOMAIN bin
    /\ i.is_forcing \/ ScriptPath(i) \in i.answers

\* create_link returned True and the wrapper is the one of this call
Relinked(R, i) ==
    LET script_path == ScriptPath(i)
    IN  /\ ExeName(ExeOf(i)) \in R.linked
        /\ R.err = None
        /\ DOMAIN R.bin = DOMAIN bin
        /\ R.bin[script_path].kind = "shim"
        /\ R.bin[script_path].prefix = i.env
        /\ R.bin[script_path].exe = ExeOf(i)
        /\ R.bin[script_path].x = ExeOf(i).x
        /\ \A w \in DOMAIN bin \ {script_path} : R.bin[w] = bin[w]

\* C23: create_link with force true, or with the confirmation accepted, on a
\* name whose wrapper exists overwrites it and returns true: the wrapper then
\* targets the prefix and the executable of this call, whichever environment
\* owned it before, and has the permission bits of the executable.
C23_ForcedLinkOverwrites ==
    \A i \in LinkCreateInputs : Overwrites(i) => Relinked(LinkCreateRun(i), i)

\* an accepted overwrite of the wrapper of the other environment
C23_Witness ==
    \E i \in LinkCreateInputs :
      /\ Overwrites(i) /\ ~i.is_forcing
      /\ bin[ScriptPath(i)].kind = "shim" /\ bin[ScriptPath(i)].prefix # i.env
      /\ ExeOf(i).x
      /\ Relinked(LinkCreateRun(i), i)

\* C24: for every prefix P and executable path E, parsing the text create_link
\* writes for (P, E) recovers the prefix P and an executable path with the name
\* of E, in the POSIX and in the Windows-family format.
C24_WrapperRoundTrip ==
    \A i \in ShimInputs :
      LET parsed == Parser_parse(ShimRun(i))
      IN  /\ parsed.ok
          /\ parsed.prefix = i.env
          /\ PathName(parsed.exec_path) = <<i.exe.name>>

\* two forced create_links, one after the other
Forced == {i \in LinksCreateInputs : i.is_forcing}
LinkedTwice(i, j) ==
    create_links(create_links(Now, i.env, i.exes, TRUE, {}), j.env, j.exes, TRUE, {})
Overlapping(i, j) == Names(i.exes) \cap Names(j.exes)

Keys(object) == [k \in 1..Len(object) |-> object[k][1]]

\* the keys of the metadata file in ascending order
KeyOrder == <<"apps", "include_apps", "injected_packages", "main_package", "name", "prefix">>
KeyRank(key) == CHOOSE k \in 1..Len(KeyOrder) : KeyOrder[k] = key
KeysSorted(object) ==
    \A k \in 1..(Len(object) - 1) : KeyRank(object[k][1]) < KeyRank(object[k + 1][1])

\* C26: serializing the same metadata always yields the same text, with the
\* keys of every object in sorted order and the app lists in a fixed order.
C26_SerializationDeterministic ==
    \A prefix \in Envs :
      meta[prefix].present =>
        /\ CondaxMetaData_dump(meta[prefix], prefix, FALSE)
             = CondaxMetaData_dump(meta[prefix], prefix, TRUE)
        /\ \A rev \in BOOLEAN :
             LET text == CondaxMetaData_dump(meta[prefix], prefix, rev)
             IN  /\ KeysSorted(text)
                 /\ KeysSorted(text[1][2])
                 /\ \A k \in 1..Len(text[2][2]) : KeysSorted(text[2][2][k])


----------------------------------------------------------------------------
\* the manifest entries of a directory whose name is `package`
EntriesOf(conda_meta, package) ==
    {e \in conda_meta : e.info.name = package}

\* C27: find_exes(prefix, package) uses only the manifest entry whose name is
\* exactly `package`: every path it returns is an executable file listed in
\* that entry, an entry whose name only starts with `package` contributes
\* nothing, and without an entry of that name (in an environment with no
\* packages too) it raises NoPackageMetadataError.
C27_FindExesExactName ==
    \A package \in ExesInputs :
        IF EntriesOf(pkgs, package) = {}
        THEN /\ FindExesRun(package).err = "NoPackageMetadataError"
             /\ FindExesRun(package).exes = {}
        ELSE /\ FindExesRun(package).err = None
             /\ \A e \in EntriesOf(pkgs, package) :
                    FindExesRun(package).exes \subseteq
                        {ExePath("jq", fn) : fn \in {p \in e.info.files : is_executable(p)}}

\* find_exes was asked for pip in an environment that has pip-tools and not pip
C27_Witness ==
    /\ bin.package = <<"pip">>
    /\ EntriesOf(pkgs, <<"pip">>) = {}
    /\ EntriesOf(pkgs, <<"pip", "-tools">>) # {}
    /\ bin.result.err = "NoPackageMetadataError"

\* the path begins with one of the segments that hold executables
BeginsWithExeSegment(p) ==
    p.dir # <<>> /\ p.dir[1] \in {"bin", "sbin", "scripts", "Scripts", "library", "Library"}

\* the conditions on a file that discovery may return
Eligible(p) ==
    /\ BeginsWithExeSegment(p)
    /\ ~StartsWithDotOrUnderscore(p.stem)
    /\ p.ext \notin EXCLUCDED_FILE_EXTENSIONS
    /\ is_executable(p)

\* C28: every file find_exes returns has a path that begins with a segment
\* that holds executables, a final segment that starts with neither "." nor
\* "_", a suffix that is not an excluded extension, and is executable on the
\* platform.
C28_FindExesOnlyEligible ==
    \A package \in ExesInputs : \A p \in FindExesRun(package).exes : Eligible(p)


----------------------------------------------------------------------------
\* the errors a backend command that exits with a non-zero code is signalled by
BackendCommandError == {"CondaCommandError", "SubprocessError"}

\* the outcome R of an operation on the environment env in which create_env or
\* remove_env exited with a non-zero code: the error is the outcome, the
\* failed command is the last step taken, and no metadata was written
Surfaces(R, env) ==
    R.failed \cap {"create_env", "remove_env"} # {} =>
        /\ R.err \in BackendCommandError
        /\ R.trace[Len(R.trace)] \in R.failed
        /\ R.meta[env] = meta[env] \/ ~R.meta[env].present

\* C29: when create_env or remove_env exits with a non-zero code, Install and
\* Remove end with the backend's error, take no step after the failed
\* command and write no metadata.  (Inject issues neither of the two.)
C29_BackendFailureSurfaces ==
    /\ \A i \in CondaxInstallInputs : \E R \in {CondaxInstallRun(i)} : Surfaces(R, i.spec.name)
    /\ \A i \in CondaxRemoveInputs : \E R \in {CondaxRemoveRun(i)} : Surfaces(R, i.spec.name)


----------------------------------------------------------------------------
\* the injected records the metadata of env lists when Update starts
RecordsBefore(env) == core_load_metadata(Now, env).meta[env].injected

\* the names discovery finds for package p in the environment env that R holds
FoundAfter(R, env, p) == Names(determine_executables_from_env(R.fs, R.pkgs, env, p).exes)

\* the metadata of env in R is the final state of an update that started
\* with the injected records `before`
Rewritten(R, env, before) ==
    /\ R.meta[env].present
    /\ R.meta[env].name = env
    /\ R.meta[env].apps = FoundAfter(R, env, env)
    /\ DOMAIN R.meta[env].injected = DOMAIN before
    /\ \A p \in DOMAIN before :
          /\ R.meta[env].injected[p].apps = FoundAfter(R, env, p)
          /\ R.meta[env].injected[p].include_apps = before[p].include_apps

\* C30: when Update ends on the path where the backend update succeeded, the
\* metadata of the environment has the apps discovery finds for the main
\* package after the update and exactly one injected record for each package
\* that was injected before it, with the apps discovery finds for that
\* package after the update and the include_apps flag it had.
C30_UpdateRewritesMetadata ==
    \A i \in CoreUpdateInputs : \E R \in {CoreUpdateRun(i)} :
        is_env(fs, i.spec.name) /\ R.err = None /\ R.failed = {}
            => Rewritten(R, i.spec.name, RecordsBefore(i.spec.name))


----------------------------------------------------------------------------
\* the app names the metadata of a tracked environment lists as its own: the
\* main package's and those of the injected packages with include_apps
OwnedApps(env) ==
    IF env \in Envs /\ is_env(fs, env) /\ meta[env].present
    THEN meta[env].apps \cup
         UNION {meta[env].injected[p].apps :
                   p \in {q \in DOMAIN meta[env].injected : meta[env].injected[q].include_apps}}
    ELSE {}

\* the file is a wrapper whose environment does not list an app of its name
StaleWrapper(link) ==
    /\ bin[link].kind = "shim"
    /\ ~\E app \in OwnedApps(bin[link].prefix) : get_wrapper_name(app) = link

ToPrune == {link \in DOMAIN bin : bin[link].kind = "dangling" \/ StaleWrapper(link)}

\* C31: the prune pass deletes exactly the dangling symbolic links and the
\* wrappers whose environment (tracked or not) does not list an app of that
\* name; wrappers of listed apps, wrappers whose environment cannot be read
\* and files that are no wrappers stay as they are.
C31_PruneDeletesExactlyStale ==
    \E R \in {CorePruneRun} :
        /\ R.err = None
        /\ R.deleted = ToPrune
        /\ DOMAIN R.bin = DOMAIN bin \ ToPrune
        /\ \A link \in DOMAIN R.bin : R.bin[link] = bin[link]


----------------------------------------------------------------------------
\* the last line of the wrapper is an unconditional exit 0
EndsWithExit0(lines) == lines # <<>> /\ lines[Len(lines)] = <<"exit", " ", "0">>

\* the truthy values of the variable: a non-zero integer string, or any other
\* non-empty string that does not spell false
Truthy(value) ==
    /\ value.set
    /\ value.str # <<>>
    /\ lower(value.str) # <<"f", "a", "l", "s", "e">>
    /\ IsInt(value.str) => int(value.str) # 0

\* C32: the wrapper create_link writes ends with `exit 0` exactly when the
\* platform is POSIX and CONDAX_HIDE_EXITCODE is truthy; unset, empty, a
\* spelling of false and zero give no `exit 0`, and neither does any value on
\* a Windows-family platform.
C32_ExitZeroWhenTruthy ==
    \A i \in ShimInputs : EndsWithExit0(ShimRun(i)) <=> (~nt /\ Truthy(i.value))


----------------------------------------------------------------------------
\* the process cannot go on: its next write is to a full pipe
WriterBlocked == fs = "running" /\ pkgs # <<>> /\ bin[Head(pkgs)] >= PipeCap

\* _run cannot go on: it waits in readline() on a stream that is empty and open
ReaderBlocked ==
    \/ meta.pc = "stdout" /\ ~CanRead("out")
    \/ meta.pc = "stderr" /\ ~CanRead("err")

\* C33: whatever the process writes to its two pipes, and in whatever order,
\* the process is never blocked on a full pipe while _run is blocked reading
\* the other stream, and _run returns only after the process has exited.
C33_RunNeverDeadlocks ==
    /\ ~(WriterBlocked /\ ReaderBlocked)
    /\ meta.pc = "returned" => fs = "exited"


----------------------------------------------------------------------------
\* both invocations have saved
BothDone == \A i \in Invocations : bin[i].pc = "done"

\* one invocation loaded the file after the other had saved it: the object it
\* loaded holds the other's record
OneAfterTheOther ==
    \E i, j \in Invocations : i # j /\ bin[i].name \in DOMAIN bin[j].m.injected

\* C34: when two injects of different packages into one environment have both
\* ended, the metadata file holds both records if one ran after the other,
\* and the record of only one of them if their loads and saves interleaved.
C34_ConcurrentInjectLosesUpdate ==
    BothDone =>
        IF OneAfterTheOther
        THEN DOMAIN meta["jq"].injected = {bin[i].name : i \in Invocations}
        ELSE \E i \in Invocations : DOMAIN meta["jq"].injected = {bin[i].name}

\* both loaded before either saved, and the file holds the record of one
C34_Witness ==
    /\ BothDone
    /\ ~OneAfterTheOther
    /\ DOMAIN meta["jq"].injected = {bin["second"].name}


----------------------------------------------------------------------------
\* C35: after any sequence of installs, injects, uninjects, updates and
\* removes that each complete without an error, every wrapper that targets an
\* environment belongs to a tracked environment whose metadata exposes an app
\* of that name, as a main app or as an app of a package injected with
\* include_apps.
C35_NoStaleWrappers == \A link \in DOMAIN bin : ~StaleWrapper(link)


----------------------------------------------------------------------------
\* the bin directory b holds a wrapper for the app `name` that targets env
HasWrapper(b, env, name) ==
    \E w \in {get_wrapper_name(name)} :
        w \in DOMAIN b /\ b[w].kind = "shim" /\ b[w].prefix = env

\* every app the metadata of env exposes has a wrapper that targets env
AllExposed(env) == \A app \in OwnedApps(env) : HasWrapper(bin, env, app)

\* every executable that discovery finds for the main package of env in the
\* state R has a wrapper that targets env
MainExposedAfter(R, env) ==
    \A exe \in find_exes(R.fs, R.pkgs, env, env).exes : HasWrapper(R.bin, env, ExeName(exe))

ForcedUpdates == {i \in UpdateInputs : Updatable(i) /\ i.is_forcing /\ AllExposed(i.env)}

\* C36: when every exposed app of an environment has a wrapper that targets
\* it, a forced update that succeeds in place leaves a wrapper targeting the
\* environment for every executable of the main package found after the
\* update, also when an executable keeps its name and moves to another
\* directory or, on Windows, changes only its extension.
C36_UpdateKeepsAppsExposed ==
    \A i \in ForcedUpdates :
        /\ \E R \in {ClassUpdateRun(i)} : R.err = None => MainExposedAfter(R, i.env)
        /\ \E R \in {CoreUpdateInPlaceRun(i)} : R.err = None => MainExposedAfter(R, i.env)


----------------------------------------------------------------------------
\* the packages injected into env without include_apps, and the others
HiddenPackages(env) ==
    {p \in DOMAIN meta[env].injected : ~meta[env].injected[p].include_apps}

\* the apps that, in the state R, belong to a package injected into env
\* without include_apps and neither to the main package nor to a package
\* injected with include_apps
HiddenOnly(R, env) ==
    UNION {Names(find_exes(R.fs, R.pkgs, env, p).exes) : p \in HiddenPackages(env)}
        \ UNION {Names(find_exes(R.fs, R.pkgs, env, p).exes) :
                    p \in ({env} \cup DOMAIN meta[env].injected) \ HiddenPackages(env)}

NoHiddenWrapperWritten(R, env) ==
    \A app \in HiddenOnly(R, env) : get_wrapper_name(app) \notin R.written

\* C37: an update writes no wrapper for an app that belongs only to a package
\* injected without include_apps, also when the update brings that package an
\* executable it did not have.
C37_UpdateKeepsHiddenAppsHidden ==
    \A i \in {j \in UpdateInputs : Updatable(j)} :
        /\ \E R \in {ClassUpdateRun(i)} : NoHiddenWrapperWritten(R, i.env)
        /\ \E R \in {CoreUpdateInPlaceRun(i)} : NoHiddenWrapperWritten(R, i.env)


----------------------------------------------------------------------------
\* the tracked environments of the state R
TrackedEnvs(R) == Elements(get_all_envs(R.fs))

\* the names of the wrappers of the executables env exposes in the state R:
\* those of its main package and of the packages injected with include_apps
ExposedBy(R, env) ==
    {get_wrapper_name(ExeName(e)) :
        e \in UNION {determine_executables_from_env(R.fs, R.pkgs, env, p).exes :
                        p \in {env} \cup {q \in DOMAIN R.meta[env].injected :
                                            R.meta[env].injected[q].include_apps}}}

Exposers(R, w) == {env \in TrackedEnvs(R) : w \in ExposedBy(R, env)}

Wrappers(b) == {w \in DOMAIN b : b[w].kind = "shim"}

\* every exposed executable has a wrapper, which targets the environment that
\* exposes it when that is the only one
Repaired(R) ==
    \A env \in TrackedEnvs(R) : \A w \in ExposedBy(R, env) :
        /\ w \in Wrappers(R.bin)
        /\ Exposers(R, w) = {env} => R.bin[w].prefix = env

\* the wrappers and their targets are the same in both bin directories
SameWrappers(b1, b2) ==
    /\ Wrappers(b1) = Wrappers(b2)
    /\ \A w \in Wrappers(b1) : b1[w] = b2[w]

\* C38: after fix_links every executable of the main package and of the
\* packages injected with include_apps of every tracked environment has a
\* wrapper of its name, which targets that environment when no other one
\* exposes the name, and a second fix_links changes no wrapper and no target.
C38_FixLinksRepairsAndIsIdempotent ==
    \E R \in {CoreFixLinksRun} :
        R.err = None =>
            /\ Repaired(R)
            /\ \E R2 \in {core_fix_links(R)} : R2.err = None /\ SameWrappers(R.bin, R2.bin)

\* fix_links has written a wrapper that was missing and deleted a stale one
C38_Witness ==
    \E R \in {CoreFixLinksRun} :
        /\ R.err = None
        /\ R.written \ DOMAIN bin # {}
        /\ R.deleted \ R.written # {}
        /\ \E w \in Wrappers(R.bin) : Cardinality(Exposers(R, w)) = 1

====
